---- MODULE Spec2Model ----
(***************************************************************************)
(* Mailbox synchronisation engine of yjemail (backend/app.py,              *)
(* backend/utils/email/graph_webhook.py, backend/utils/email/graph_api.py) *)
(*                                                                         *)
(* Three groups of state:                                                  *)
(*   - the webhook endpoint, the notification handler threads it starts    *)
(*     (push fetch) and the single-mailbox check requests (pull check),    *)
(*     all working on one message store;                                   *)
(*   - create_subscription calls and the local subscription table;         *)
(*   - the bulk-create loop with the time it sleeps.                       *)
(*                                                                         *)
(* Strings the code parses are sequences of tokens: the six characters     *)
(* "email_" are one token, every other token is one character.            *)
(***************************************************************************)
EXTENDS Integers, Sequences, FiniteSets, TLC

\* ------------------------------------------------------------------ bounds
\* HTTP requests (webhook deliveries and check requests together) per run.
MaxOps == 2
\* Tokens in a clientState string.
MaxCsLen == 3
\* Messages the provider receives per run.
MaxMsgs == 1
\* create_subscription calls per run.
MaxCreators == 2
\* Jumps of the clock per run.
MaxTicks == 3
\* Seconds the renewal loop waits between two scans.
MaxInterval == 2
\* Largest fleet whose mailboxes may be subscribed already and whose create
\* requests may fail or be throttled.
MaxBulk == 3

\* ------------------------------------------------------------ fixed data
\* Mailboxes in the emails table. Mailbox 1 is an Outlook mailbox with OAuth2
\* credentials, mailbox 2 an Outlook mailbox whose refresh_token is empty.
EmailIds == {1, 2}
HasOAuth(e) == e # 2
UserOf(e) == 1

Digits == {"1", "2"}
CsTokens == {"email_"} \cup Digits \cup {"x", " "}
ChangeTypes == {"created", "updated"}

RECURSIVE SeqsUpTo(_, _)
SeqsUpTo(S, n) ==
    IF n = 0 THEN {<<>>}
    ELSE LET shorter == SeqsUpTo(S, n - 1)
         IN  shorter \cup {Append(s, x) : s \in {t \in shorter : Len(t) = n - 1}, x \in S}

\* ------------------------------------------------- clientState parsing
\* str.startswith('email_')
StartsWithEmail(cs) == Len(cs) >= 1 /\ cs[1] = "email_"

\* str.replace('email_', ''): every occurrence is removed, not only the prefix.
ReplaceEmail(cs) == SelectSeq(cs, LAMBDA c : c # "email_")

RECURSIVE Strip(_)
\* int() ignores leading and trailing whitespace.
Strip(s) ==
    IF s = <<>> THEN s
    ELSE IF Head(s) = " " THEN Strip(Tail(s))
    ELSE IF s[Len(s)] = " " THEN Strip(SubSeq(s, 1, Len(s) - 1))
    ELSE s

DigitVal(c) == IF c = "1" THEN 1 ELSE 2

RECURSIVE DigitsValue(_)
DigitsValue(s) ==
    IF s = <<>> THEN 0
    ELSE 10 * DigitsValue(SubSeq(s, 1, Len(s) - 1)) + DigitVal(s[Len(s)])

\* The value int() raises ValueError on.
NoInt == -1

\* int(s) over the token alphabet: decimal digits, surrounded by whitespace.
IntParse(s) ==
    LET t == Strip(s)
    IN  IF t # <<>> /\ \A i \in 1..Len(t) : t[i] \in Digits
        THEN DigitsValue(t)
        ELSE NoInt

\* What _process_single_notification decides before it takes the lock:
\* 0 when the notification is discarded, else the mailbox id to fetch.
NotificationTarget(n) ==
    IF ~StartsWithEmail(n.clientState) THEN 0
    ELSE LET id == IntParse(ReplaceEmail(n.clientState))
         IN  IF id = NoInt THEN 0
             ELSE IF id \notin EmailIds THEN 0
             ELSE IF n.changeType # "created" THEN 0
             ELSE id

\* ------------------------------------------------------- provider side
PUSH_LIMIT == 5
PULL_LIMIT == 100

\* receivedDateTime as Graph sends it: an ISO 8601 string ending in Z.
IsoTime(t) == [fmt |-> "iso", sec |-> t]

\* A message held by the provider. Two messages may agree on everything but id.
GraphMessage(i, t, f, subject) ==
    [id |-> i, subject |-> subject, from |-> [name |-> "n", address |-> "a"],
     receivedDateTime |-> IsoTime(t), folder |-> f]

Folders == {"inbox", "junkemail"}

RECURSIVE NewestFirst(_)
\* $orderby=receivedDateTime desc
NewestFirst(S) ==
    IF S = {} THEN <<>>
    ELSE LET m == CHOOSE x \in S : \A y \in S :
                      \/ x.receivedDateTime.sec > y.receivedDateTime.sec
                      \/ x.receivedDateTime.sec = y.receivedDateTime.sec /\ x.id >= y.id
         IN  <<m>> \o NewestFirst(S \ {m})

FirstN(s, n) == SubSeq(s, 1, IF Len(s) < n THEN Len(s) ELSE n)

\* datetime.fromisoformat(received_time.replace("Z", "+00:00"))
FromIsoFormat(iso) == [fmt |-> "datetime", sec |-> iso.sec]

\* f"{name} <{address}>"
FormatSender(from) == <<from.name, " <", from.address, ">">>

\* get_messages: the provider's answer turned into message dicts. since is
\* NoSince or the $filter value "receivedDateTime ge <since>".
NoSince == [fmt |-> "none", sec |-> 0]

ParseMessage(m) ==
    [subject |-> m.subject, sender |-> FormatSender(m.from),
     received_time |-> FromIsoFormat(m.receivedDateTime)]

get_messages(inbox, folder, limit, since) ==
    LET hits   == {m \in inbox : /\ m.folder = folder
                                 /\ since.fmt = "none" \/ m.receivedDateTime.sec >= since.sec}
        listed == FirstN(NewestFirst(hits), limit)
    IN  [i \in 1..Len(listed) |-> ParseMessage(listed[i])]

\* received_time.strftime("%Y-%m-%d %H:%M:%S") when it is a datetime
StrfTime(rt) == IF rt.fmt = "datetime" THEN [fmt |-> "sql", sec |-> rt.sec] ELSE rt

\* since: "%Y-%m-%d %H:%M:%S" parsed and written as "%Y-%m-%dT%H:%M:%SZ"
SinceFilter(lct) == IF lct = 0 THEN NoSince ELSE IsoTime(lct)

\* ---------------------------------------------------------- the store
\* mail_records rows. add_mail_record probes (email_id, sender, subject,
\* received_time) and inserts in one transaction.
MailKey(r) == <<r.email_id, r.sender, r.subject, r.received_time>>

MailRow(id, e, msg, rt, folder) ==
    [id |-> id, email_id |-> e, subject |-> msg.subject, sender |-> msg.sender,
     received_time |-> rt, folder |-> folder]

MailExists(rows, row) == \E r \in rows : MailKey(r) = MailKey(row)

add_mail_record(rows, e, msg, rt, folder) ==
    LET row == MailRow(Cardinality(rows) + 1, e, msg, rt, folder)
    IN  IF MailExists(rows, row)
        THEN [rows |-> rows, inserted |-> FALSE, mail_id |-> 0]
        ELSE [rows |-> rows \cup {row}, inserted |-> TRUE, mail_id |-> row.id]

PushRawTime(rt) == rt

\* received_time as _fetch_new_mail and check_mail hand it to the store
PushReceivedTime(rt) == StrfTime(rt)
PullReceivedTime(rt) == StrfTime(rt)

\* ------------------------------------------------------------- state
VARIABLES
    graph_webhook_handler,  \* TRUE when init_graph_webhook built the handler
    processing_emails,      \* GraphWebhookHandler._processing_emails
    processor_emails,       \* in-flight set of EmailBatchProcessor
    mail_records,           \* table mail_records
    last_check_time,        \* emails.last_check_time, 0 when NULL
    now,                    \* wall clock
    provider_mail,          \* provider_mail[e]: messages of mailbox e at the provider
    calls,                  \* requests sent to the provider: token and list calls
    ws_events,              \* new_mails events given to the WebSocket handler
    reqs,                   \* reqs[r]: HTTP request r and the thread working for it
    subscriptions,          \* table subscriptions
    provider_subs,          \* subscription ids the provider has issued
    creators,               \* creators[k]: a create_subscription call in progress
    bulk,                   \* the bulk-create loop
    renew,                  \* the renewal loop thread and GraphWebhookManager.running
    last_error,             \* emails.last_error, "" when NULL
    emails,                 \* table emails: addresses, owners, kinds and credentials
    email_platforms,        \* table email_platforms: the tags of each mailbox
    waiter,                 \* a get_verification_code request and its loop
    task                    \* an import, export, scan or migration pass in progress

mailVars == <<graph_webhook_handler, processing_emails, processor_emails, mail_records,
              last_check_time, now, provider_mail, calls, ws_events, reqs>>
subVars  == <<subscriptions, provider_subs, creators, bulk>>
otherVars == <<renew, last_error>>
acctVars == <<emails, email_platforms, waiter, task>>
vars     == <<mailVars, subVars, otherVars, acctVars>>

Ops == 1..MaxOps

NoResp == [status |-> 0, ctype |-> "", body |-> <<>>]
NoBody == [shape |-> "none", value |-> <<>>]

\* Progress values at which check_mail calls its callback: 0 (line 332), 10
\* (351), 14 (the folder callback's first call, fetch_emails line 245, scaled
\* at line 364), 90 (387) and 100 (396, 436).
Milestones == {0, 10, 14, 90, 100}

\* folder_progress_callback: total_progress = 10 + int(progress * 0.4)
FolderProgress(progress) == 10 + (progress * 4) \div 10

\* The calls fetch_emails makes to its callback: 10, 20, 80, 90 (lines 244-270),
\* as check_mail hands them on.
FolderCalls == <<FolderProgress(10), FolderProgress(20), FolderProgress(80), FolderProgress(90)>>

\* The callback of the request raises at no milestone.
NoRaise == -1

FreeReq ==
    [kind |-> "none", method |-> "", vtoken |-> <<>>, body |-> NoBody, email_id |-> 0,
     resp |-> NoResp, pc |-> "none", cur |-> 0, msgs |-> <<>>,
     first_sync |-> FALSE, lct |-> 0, since |-> NoSince, raises |-> NoRaise,
     new_mails |-> <<>>, total |-> 0, progress |-> <<>>]

\* The next request takes the lowest free slot.
IsNext(r) == reqs[r].kind = "none" /\ \A q \in Ops : q < r => reqs[q].kind # "none"

\* ----------------------------------------------- webhook endpoint
\* make_response(validation_token) with Content-Type text/plain
ValidationResponse(token) == [status |-> 200, ctype |-> "text/plain", body |-> token]

\* return '', 202
Accepted == [status |-> 202, ctype |-> "text/html", body |-> <<>>]

\* serve_frontend answers every GET path with a file of the frontend build.
FrontendResponse == [status |-> 200, ctype |-> "text/html", body |-> <<"index.html">>]

WebhookPostStrict(vtoken, body, handler) ==
    IF vtoken # <<>> THEN [resp |-> ValidationResponse(vtoken), thread |-> FALSE]
    ELSE IF handler /\ body.shape # "bad_json"
         THEN [resp |-> Accepted, thread |-> TRUE]
         ELSE [resp |-> [status |-> 400, ctype |-> "text/html", body |-> <<>>], thread |-> FALSE]

WebhookPostNoEcho(vtoken, body, handler) ==
    IF handler /\ body.shape # "bad_json"
    THEN [resp |-> Accepted, thread |-> TRUE]
    ELSE [resp |-> Accepted, thread |-> FALSE]

\* What the POST route answers and whether it starts a handler thread.
\* request.json raises on a body that is no JSON; the except branch answers 202.
WebhookPostResponse(vtoken, body, handler) ==
    IF vtoken # <<>> THEN [resp |-> ValidationResponse(vtoken), thread |-> FALSE]
    ELSE IF handler
         THEN IF body.shape = "bad_json"
              THEN [resp |-> Accepted, thread |-> FALSE]
              ELSE [resp |-> Accepted, thread |-> TRUE]
         ELSE [resp |-> Accepted, thread |-> FALSE]

\* POST /api/graph/webhook
graph_webhook_endpoint(r, vtoken, body) ==
    /\ IsNext(r)
    /\ LET out == WebhookPostResponse(vtoken, body, graph_webhook_handler)
       IN  reqs' = [reqs EXCEPT ![r] =
                [FreeReq EXCEPT !.kind = "webhook", !.method = "POST", !.vtoken = vtoken,
                                !.body = body, !.resp = out.resp,
                                !.pc = IF out.thread THEN "start" ELSE "done"]]
    /\ UNCHANGED <<graph_webhook_handler, processing_emails, processor_emails, mail_records,
                   last_check_time, now, provider_mail, calls, ws_events, subVars, otherVars, acctVars>>

\* GET /api/graph/webhook: the webhook route takes POST only, so the request
\* falls to the catch-all route of serve_frontend.
serve_frontend(r, vtoken) ==
    /\ IsNext(r)
    /\ reqs' = [reqs EXCEPT ![r] =
            [FreeReq EXCEPT !.kind = "webhook", !.method = "GET", !.vtoken = vtoken,
                            !.resp = FrontendResponse, !.pc = "done"]]
    /\ UNCHANGED <<graph_webhook_handler, processing_emails, processor_emails, mail_records,
                   last_check_time, now, provider_mail, calls, ws_events, subVars, otherVars, acctVars>>

\* Database.set_error(id, msg)
set_error(errors, e, msg) == [errors EXCEPT ![e] = msg]

\* Database.update_check_time(id): last_check_time = now()
update_check_time_back(lct, e, t) == [lct EXCEPT ![e] = lct[e] - 1]

update_check_time(lct, e, t) == [lct EXCEPT ![e] = t]

\* ------------------------------------------- notification handler thread
\* handle_notification: notification_data.get('value', []) raises on a body
\* that is no object; the outer except ends the thread.
handle_notification(r) ==
    /\ reqs[r].pc = "start"
    /\ reqs' = [reqs EXCEPT ![r].pc = IF reqs[r].body.shape = "object" THEN "loop" ELSE "done"]
    /\ UNCHANGED <<graph_webhook_handler, processing_emails, processor_emails, mail_records,
                   last_check_time, now, provider_mail, calls, ws_events, subVars, otherVars, acctVars>>

\* The notification the for loop of handle_notification is at; the ones it
\* has passed are not kept.
CurrentNotification(r) == Head(reqs[r].body.value)

\* The loop of handle_notification has no notification left: the thread ends.
NotificationsDone(r) ==
    /\ reqs[r].pc = "loop"
    /\ reqs[r].body.value = <<>>
    /\ reqs' = [reqs EXCEPT ![r].pc = "done"]
    /\ UNCHANGED <<graph_webhook_handler, processing_emails, processor_emails, mail_records,
                   last_check_time, now, provider_mail, calls, ws_events, subVars, otherVars, acctVars>>

FetchAlways(e, inflight) == TRUE

\* with self._processing_lock: the mailbox is free when it is not in the set.
MayFetch(e, inflight) == e \notin inflight

\* _process_single_notification up to the token request of _fetch_new_mail
\* (lines 413-467): parse, look the mailbox up, test and set the in-flight set
\* under the lock, then the credentials and get_new_access_token. ok is the
\* provider's answer to the token request; nothing shared is read or written
\* between the lock and that request.
_process_single_notification(r, ok) ==
    /\ reqs[r].pc = "loop"
    /\ reqs[r].body.value # <<>>
    /\ LET e == NotificationTarget(CurrentNotification(r))
       IN  IF e # 0 /\ MayFetch(e, processing_emails)
           THEN /\ processing_emails' = processing_emails \cup {e}
                /\ IF HasOAuth(e)
                   THEN /\ calls' = [calls EXCEPT !.token = @ + 1]
                        /\ reqs' = [reqs EXCEPT ![r].cur = e,
                                                ![r].pc = IF ok THEN "list" ELSE "finally"]
                   ELSE /\ ok
                        /\ calls' = calls
                        /\ reqs' = [reqs EXCEPT ![r].cur = e, ![r].pc = "finally"]
           ELSE /\ ok
                /\ processing_emails' = processing_emails
                /\ calls' = calls
                /\ reqs' = [reqs EXCEPT ![r].body.value = Tail(@)]
    /\ UNCHANGED <<graph_webhook_handler, processor_emails, mail_records,
                   last_check_time, now, provider_mail, ws_events, subVars, otherVars, acctVars>>

\* _fetch_new_mail, lines 470-475: get_messages(folder="inbox", limit=5).
\* A failed listing returns [] like an empty folder.
FetchList(r, ok) ==
    /\ reqs[r].pc = "list"
    /\ LET msgs == IF ok THEN get_messages(provider_mail[reqs[r].cur], "inbox", PUSH_LIMIT, NoSince)
                   ELSE <<>>
       IN  reqs' = [reqs EXCEPT ![r].msgs = msgs, ![r].total = Len(msgs),
                                ![r].pc = IF msgs = <<>> THEN "finally" ELSE "save"]
    /\ calls' = [calls EXCEPT !.list = @ + 1]
    /\ UNCHANGED <<graph_webhook_handler, processing_emails, processor_emails, mail_records,
                   last_check_time, now, provider_mail, ws_events, subVars, otherVars, acctVars>>

\* _fetch_new_mail, lines 481-510: one turn of the save loop.
FetchSave(r) ==
    /\ reqs[r].pc = "save"
    /\ reqs[r].msgs # <<>>
    /\ LET msg == Head(reqs[r].msgs)
           out == add_mail_record(mail_records, reqs[r].cur, msg,
                                  PushReceivedTime(msg.received_time), "INBOX")
       IN  /\ mail_records' = out.rows
           /\ reqs' = [reqs EXCEPT ![r].msgs = Tail(@),
                                   ![r].new_mails = IF out.inserted /\ out.mail_id # 0
                                                    THEN Append(@, out.mail_id) ELSE @,
                                   ![r].pc = IF Tail(reqs[r].msgs) = <<>> THEN "time" ELSE "save"]
    /\ UNCHANGED <<graph_webhook_handler, processing_emails, processor_emails,
                   last_check_time, now, provider_mail, calls, ws_events, subVars, otherVars, acctVars>>

\* _broadcast_new_mails: the message {'type': 'new_mails', 'data': new_mails,
\* 'count': len(new_mails)} is given to broadcast_to_user(user_id, message).
_broadcast_new_mails(events, user_id, new_mails) ==
    events \cup {[user_id |-> user_id, data |-> new_mails, count |-> Len(new_mails)]}

BroadcastAlways(events, user_id, new_mails) ==
    _broadcast_new_mails(events, user_id, new_mails)

\* if saved_count > 0 and self.ws_handler and new_mails (line 518); saved_count
\* is the length of new_mails.
BroadcastIfNew(events, user_id, new_mails) ==
    IF new_mails # <<>> THEN _broadcast_new_mails(events, user_id, new_mails) ELSE events

\* _fetch_new_mail, lines 512-519: update_check_time, then the broadcast of
\* the rows that were inserted.
FetchUpdateTime(r) ==
    /\ reqs[r].pc = "time"
    /\ last_check_time' = update_check_time(last_check_time, reqs[r].cur, now)
    /\ ws_events' = BroadcastIfNew(ws_events, UserOf(reqs[r].cur), reqs[r].new_mails)
    /\ reqs' = [reqs EXCEPT ![r].pc = "finally", ![r].new_mails = <<>>]
    /\ UNCHANGED <<graph_webhook_handler, processing_emails, processor_emails, mail_records,
                   now, provider_mail, calls, subVars, otherVars, acctVars>>

KeepInFlight(inflight, e) == inflight

\* set.discard(email_id)
Discard(inflight, e) == inflight \ {e}

\* finally: self._processing_emails.discard(email_id); on to the next notification.
FetchFinally(r) ==
    /\ reqs[r].pc = "finally"
    /\ processing_emails' = Discard(processing_emails, reqs[r].cur)
    /\ reqs' = [reqs EXCEPT ![r].pc = "loop", ![r].cur = 0, ![r].body.value = Tail(@),
                            ![r].msgs = <<>>, ![r].total = 0, ![r].new_mails = <<>>]
    /\ UNCHANGED <<graph_webhook_handler, processor_emails, mail_records,
                   last_check_time, now, provider_mail, calls, ws_events, subVars, otherVars, acctVars>>

\* ------------------------------------------------ single-mailbox check
\* Mailbox ids a check request may name: the mailboxes and one unknown id.
CheckIds == EmailIds \cup {3}

\* EmailBatchProcessor.is_email_being_processed: reflects the in-flight set.
is_email_being_processed(e) == e \in processor_emails

Json(status, what) == [status |-> status, ctype |-> "application/json", body |-> <<what>>]

\* check_email, lines 609-651: look the mailbox up, refuse with 409 when the
\* processor has it in flight, else submit _check_email_task to the pool.
\* at is the progress value at which the callback handed to check_mail raises.
CheckRequest(r, e, at) ==
    /\ IsNext(r)
    /\ reqs' = [reqs EXCEPT ![r] =
            IF e \notin EmailIds
            THEN [FreeReq EXCEPT !.kind = "check", !.method = "POST", !.email_id = e,
                                 !.resp = Json(404, "not_found"), !.pc = "done"]
            ELSE IF is_email_being_processed(e)
            THEN [FreeReq EXCEPT !.kind = "check", !.method = "POST", !.email_id = e,
                                 !.resp = Json(409, "processing"), !.pc = "done"]
            ELSE [FreeReq EXCEPT !.kind = "check", !.method = "POST", !.email_id = e,
                                 !.lct = last_check_time[e], !.raises = at,
                                 !.pc = "queued"]]
    /\ UNCHANGED <<graph_webhook_handler, processing_emails, processor_emails, mail_records,
                   last_check_time, now, provider_mail, calls, ws_events, subVars, otherVars, acctVars>>

\* The callback check_email builds (lines 636-644) logs and does not raise.
check_email(r, e) == CheckRequest(r, e, NoRaise)

\* check_mail run with a callback that raises when called with progress at.
check_mail_raising(r, e, at) == CheckRequest(r, e, at)

\* Results of check_mail beside success: the token or the credentials are
\* missing (lines 322-341), the outer except caught an exception (447-453).
Failed == Json(200, "failed")
Caught == Json(200, "error")

\* An exception left check_mail; check_email answers 500 (lines 668-673).
Escaped == Json(500, "error")

\* _check_email_task starts on a pool thread: under the processor's lock the
\* mailbox is put in the in-flight set, or the task ends when it is there already.
\* Then check_mail, lines 291-351: first-sync probe, credentials and
\* get_new_access_token, whose answer is ok.
CheckTaskBegin(r, ok) ==
    /\ reqs[r].pc = "queued"
    /\ LET e == reqs[r].email_id
       IN  IF e \in processor_emails
           THEN /\ ok
                /\ processor_emails' = processor_emails
                /\ calls' = calls
                /\ last_error' = last_error
                /\ reqs' = [reqs EXCEPT ![r].pc = "done", ![r].resp = Json(200, "conflict")]
           ELSE /\ processor_emails' = processor_emails \cup {e}
                /\ IF reqs[r].raises = 0
                   THEN \* progress_callback(0, ...) at line 326 or 332 raises
                        /\ ok
                        /\ calls' = calls
                        /\ last_error' = last_error
                        /\ reqs' = [reqs EXCEPT ![r].cur = e, ![r].pc = "pfinally",
                                                ![r].resp = Escaped, ![r].progress = <<0>>]
                   ELSE IF ~HasOAuth(e)
                   THEN /\ ok
                        /\ calls' = calls
                        /\ last_error' = set_error(last_error, e, "failed")
                        /\ reqs' = [reqs EXCEPT ![r].cur = e, ![r].pc = "pfinally",
                                                ![r].resp = Failed, ![r].progress = <<0>>]
                   ELSE /\ calls' = [calls EXCEPT !.token = @ + 1]
                        /\ last_error' = IF ok THEN last_error
                                          ELSE set_error(last_error, e, "failed")
                        /\ reqs' = [reqs EXCEPT ![r].cur = e,
                                ![r].first_sync = ~\E row \in mail_records : row.email_id = e,
                                ![r].pc = IF ok /\ reqs[r].raises # 10
                                          THEN "pinbox" ELSE "pfinally",
                                ![r].resp = IF ~ok THEN Failed
                                            ELSE IF reqs[r].raises = 10 THEN Caught ELSE @,
                                ![r].progress = IF ~ok THEN <<0, 0>>
                                                ELSE IF reqs[r].raises = 10 THEN <<0, 10, 0>>
                                                ELSE <<0, 10>>]
    /\ UNCHANGED <<graph_webhook_handler, processing_emails, mail_records,
                   last_check_time, now, provider_mail, ws_events, subVars, renew, acctVars>>

PullSinceAlways(r) == SinceFilter(reqs[r].lct)

\* since of fetch_emails: None on a first sync, else the last_check_time of
\* email_info, which check_email read when the request arrived.
PullSince(r) ==
    IF reqs[r].first_sync THEN NoSince ELSE SinceFilter(reqs[r].lct)

WithFolder(msgs, name) ==
    [i \in 1..Len(msgs) |-> [subject |-> msgs[i].subject, sender |-> msgs[i].sender,
                             received_time |-> msgs[i].received_time, folder |-> name]]

\* check_mail, lines 361-387: fetch_emails for one folder with limit=100. A
\* listing the provider refuses (ok is FALSE) returns [] (get_messages, lines
\* 142-153). A
\* callback that raises at line 245 of fetch_emails ends the folder before the
\* listing (except at line 382); after the last folder progress_callback(90)
\* is called, and when it raises the outer except returns the failure result.
CheckList(r, pc, folder_id, folder_name, nextpc, ok) ==
    /\ reqs[r].pc = pc
    /\ IF reqs[r].raises = 14
       THEN /\ ok
            /\ reqs' = [reqs EXCEPT ![r].pc = nextpc,
                                    ![r].progress =
                                        @ \o <<FolderCalls[1]>>
                                          \o (IF nextpc = "psave" THEN <<90>> ELSE <<>>)]
            /\ calls' = calls
       ELSE LET got == IF ok THEN get_messages(provider_mail[reqs[r].cur], folder_id,
                                               PULL_LIMIT, PullSince(r))
                       ELSE <<>>
                raised == nextpc = "psave" /\ reqs[r].raises = 90
            IN  /\ reqs' = [reqs EXCEPT ![r].msgs = @ \o WithFolder(got, folder_name),
                                        ![r].total = @ + Len(got),
                                        ![r].since = PullSince(r),
                                        ![r].pc = IF raised THEN "pfinally" ELSE nextpc,
                                        ![r].resp = IF raised THEN Caught ELSE @,
                                        ![r].progress =
                                            @ \o FolderCalls
                                              \o (IF nextpc = "psave" THEN <<90>> ELSE <<>>)
                                              \o (IF raised THEN <<0>> ELSE <<>>)]
                /\ calls' = [calls EXCEPT !.list = @ + 1]
    /\ UNCHANGED <<graph_webhook_handler, processing_emails, processor_emails, mail_records,
                   last_check_time, now, provider_mail, ws_events, subVars, otherVars, acctVars>>

CheckListInbox(r, ok) == CheckList(r, "pinbox", "inbox", "INBOX", "pjunk", ok)
CheckListJunk(r, ok) == CheckList(r, "pjunk", "junkemail", "JUNK", "psave", ok)

\* check_mail, lines 389-397: nothing listed; update_check_time and return.
CheckNoMail(r) ==
    /\ reqs[r].pc = "psave"
    /\ reqs[r].total = 0
    /\ last_check_time' = update_check_time(last_check_time, reqs[r].cur, now)
    /\ reqs' = [reqs EXCEPT ![r].pc = "pfinally",
                            ![r].resp = IF reqs[r].raises = 100 THEN Caught
                                        ELSE Json(200, "success"),
                            ![r].progress = @ \o (IF reqs[r].raises = 100 THEN <<100, 0>>
                                                  ELSE <<100>>)]
    /\ UNCHANGED <<graph_webhook_handler, processing_emails, processor_emails, mail_records,
                   now, provider_mail, calls, ws_events, subVars, otherVars, acctVars>>

\* check_mail, lines 401-426: one turn of the save loop.
CheckSave(r) ==
    /\ reqs[r].pc = "psave"
    /\ reqs[r].msgs # <<>>
    /\ LET rec == Head(reqs[r].msgs)
           out == add_mail_record(mail_records, reqs[r].cur, rec,
                                  PullReceivedTime(rec.received_time), rec.folder)
       IN  /\ mail_records' = out.rows
           /\ reqs' = [reqs EXCEPT ![r].msgs = Tail(@),
                                   ![r].pc = IF Tail(reqs[r].msgs) = <<>> THEN "ptime" ELSE "psave"]
    /\ UNCHANGED <<graph_webhook_handler, processing_emails, processor_emails,
                   last_check_time, now, provider_mail, calls, ws_events, subVars, otherVars, acctVars>>

\* check_mail, lines 428-445: update_check_time and the success result.
CheckUpdateTime(r) ==
    /\ reqs[r].pc = "ptime"
    /\ last_check_time' = update_check_time(last_check_time, reqs[r].cur, now)
    /\ reqs' = [reqs EXCEPT ![r].pc = "pfinally",
                            ![r].resp = IF reqs[r].raises = 100 THEN Caught
                                        ELSE Json(200, "success"),
                            ![r].progress = @ \o (IF reqs[r].raises = 100 THEN <<100, 0>>
                                                  ELSE <<100>>)]
    /\ UNCHANGED <<graph_webhook_handler, processing_emails, processor_emails, mail_records,
                   now, provider_mail, calls, ws_events, subVars, otherVars, acctVars>>

\* _check_email_task ends: the mailbox leaves the in-flight set and
\* check_email answers jsonify(result).
CheckTaskEnd(r) ==
    /\ reqs[r].pc = "pfinally"
    /\ processor_emails' = processor_emails \ {reqs[r].cur}
    /\ reqs' = [reqs EXCEPT ![r].pc = "done", ![r].cur = 0, ![r].msgs = <<>>,
                            ![r].total = 0, ![r].first_sync = FALSE, ![r].lct = 0,
                            ![r].since = NoSince, ![r].raises = NoRaise,
                            ![r].progress = <<>>]
    /\ UNCHANGED <<graph_webhook_handler, processing_emails, mail_records,
                   last_check_time, now, provider_mail, calls, ws_events, subVars, otherVars, acctVars>>

\* The HTTP exchange of request r is over; nothing of it is kept.
Close(r) ==
    /\ reqs[r].pc = "done"
    /\ reqs' = [reqs EXCEPT ![r] = [FreeReq EXCEPT !.kind = "closed"]]
    /\ UNCHANGED <<graph_webhook_handler, processing_emails, processor_emails, mail_records,
                   last_check_time, now, provider_mail, calls, ws_events, subVars, otherVars, acctVars>>

\* ------------------------------------------------------- environment
MessageCount == Cardinality(UNION {provider_mail[e] : e \in EmailIds})

\* A message reaches mailbox e at the provider.
Deliver(e, folder, subject) ==
    /\ MessageCount < MaxMsgs
    /\ provider_mail' = [provider_mail EXCEPT
                ![e] = @ \cup {GraphMessage(MessageCount + 1, now, folder, subject)}]
    /\ UNCHANGED <<graph_webhook_handler, processing_emails, processor_emails, mail_records,
                   last_check_time, now, calls, ws_events, reqs, subVars, otherVars, acctVars>>

\* ------------------------------------------------------- subscriptions
INBOX_RESOURCE == "me/mailFolders('Inbox')/messages"

NoSubscription(rows, e) == {}

\* db.get_subscription_by_email_id: the rows of the mailbox; the code takes
\* any row as "already subscribed".
get_subscription_by_email_id(rows, e) == {row \in rows : row.email_id = e}

\* db.add_subscription: one more row.
add_subscription(rows, e, subscription_id, resource, expiration_time) ==
    rows \cup {[email_id |-> e, subscription_id |-> subscription_id, resource |-> resource,
                expiration_time |-> expiration_time]}

MAX_EXPIRATION_MINUTES == 4230

ExpirationLate(t) == [fmt |-> "datetime", sec |-> t + MAX_EXPIRATION_MINUTES + 1]

\* datetime.now(timezone.utc) + timedelta(minutes=self.MAX_EXPIRATION_MINUTES);
\* the clock counts minutes.
MaxExpiration(t) == [fmt |-> "datetime", sec |-> t + MAX_EXPIRATION_MINUTES]

\* db.delete_subscription(sub_id): the row is gone.
db_delete_subscription(rows, row) == rows \ {row}

\* Answers of the provider to POST /subscriptions. retry_after 0: no header.
NoHeader == 0
CreateResponses ==
    {[status |-> 201, retry_after |-> NoHeader], [status |-> 500, retry_after |-> NoHeader],
     [status |-> 429, retry_after |-> NoHeader], [status |-> 429, retry_after |-> 30]}

DEFAULT_RETRY_AFTER == 60

\* response.headers.get('Retry-After', '60')
RetryAfter(resp) == IF resp.retry_after = NoHeader THEN DEFAULT_RETRY_AFTER ELSE resp.retry_after

Creators == 1..MaxCreators

NoTime == [fmt |-> "none", sec |-> 0]

IdleCreator == [pc |-> "idle", email_id |-> 0, result |-> "", expiration_time |-> NoTime]

\* A thread calls create_subscription(email_info): the thread add_email
\* starts, the manual endpoint, or the bulk loop.
create_subscription(k, e) ==
    /\ creators[k].pc = "idle"
    /\ creators' = [creators EXCEPT ![k] = [IdleCreator EXCEPT !.pc = "check", !.email_id = e]]
    /\ UNCHANGED <<mailVars, otherVars, acctVars, subscriptions, provider_subs, bulk>>

\* _check_and_renew_subscriptions after a failed renewal: the row is deleted,
\* then create_subscription is called.
Recreate(k, row) ==
    /\ creators[k].pc = "idle"
    /\ row \in subscriptions
    /\ subscriptions' = db_delete_subscription(subscriptions, row)
    /\ creators' = [creators EXCEPT ![k] = [IdleCreator EXCEPT !.pc = "check",
                                                               !.email_id = row.email_id]]
    /\ UNCHANGED <<mailVars, otherVars, acctVars, provider_subs, bulk>>

\* create_subscription, lines 117-129: credentials, then the existing row.
CreateCheck(k) ==
    /\ creators[k].pc = "check"
    /\ LET e == creators[k].email_id
       IN  creators' = [creators EXCEPT
                ![k].pc = IF ~HasOAuth(e) \/ get_subscription_by_email_id(subscriptions, e) # {}
                          THEN "done" ELSE "token",
                ![k].result = IF ~HasOAuth(e) THEN "none"
                              ELSE IF get_subscription_by_email_id(subscriptions, e) # {}
                                   THEN "existing" ELSE ""]
    /\ UNCHANGED <<mailVars, otherVars, acctVars, subscriptions, provider_subs, bulk>>

\* create_subscription, lines 133-140: get_new_access_token, then the
\* expiration time of the request.
CreateToken(k, ok) ==
    /\ creators[k].pc = "token"
    /\ creators' = [creators EXCEPT ![k].pc = IF ok THEN "post" ELSE "done",
                                    ![k].result = IF ok THEN "" ELSE "none",
                                    ![k].expiration_time = IF ok THEN MaxExpiration(now) ELSE @]
    /\ UNCHANGED <<mailVars, otherVars, acctVars, subscriptions, provider_subs, bulk>>

\* create_subscription, lines 157-184: the POST and, on 201, add_subscription.
CreatePost(k, resp) ==
    /\ creators[k].pc = "post"
    /\ IF resp.status = 201
       THEN /\ provider_subs' = provider_subs + 1
            /\ subscriptions' = add_subscription(subscriptions, creators[k].email_id,
                                                 provider_subs + 1, INBOX_RESOURCE,
                                                 StrfTime(creators[k].expiration_time))
            /\ creators' = [creators EXCEPT ![k].pc = "done", ![k].result = "created"]
       ELSE /\ UNCHANGED <<provider_subs, subscriptions>>
            /\ creators' = [creators EXCEPT ![k].pc = "done", ![k].result = "none"]
    /\ UNCHANGED <<mailVars, otherVars, acctVars, bulk>>

\* ------------------------------------------------------- renewal loop
RENEW_BEFORE_HOURS == 12

\* db.get_expiring_subscriptions(hours): rows that expire within hours from now.
get_expiring_subscriptions(rows, hours, t) ==
    {row \in rows : row.expiration_time.sec <= t + hours * 60}

\* db.update_subscription_expiration(subscription_id, expiration_time)
update_subscription_expiration(rows, subscription_id, expiration_time) ==
    {IF row.subscription_id = subscription_id
     THEN [row EXCEPT !.expiration_time = expiration_time] ELSE row : row \in rows}

\* Answers of the provider to PATCH /subscriptions/<id>.
PatchStatuses == {200, 404, 429}

NoSub == [email_id |-> 0, subscription_id |-> 0, resource |-> "", expiration_time |-> NoTime]

\* Nothing was asked of the provider for the current subscription yet.
NoAnswer == 0
\* get_new_access_token returned None.
TokenFailed == 1

\* running is GraphWebhookManager.running; pc to waited are the thread
\* self.renew_thread refers to. starting counts the start_renew_loop calls that
\* have passed the test of running and not yet started their thread, started
\* the threads started so far, and orphans are the loop threads that
\* self.renew_thread no longer refers to.
IdleRenew ==
    [running |-> FALSE, pc |-> "off", check_interval |-> 0, todo |-> {}, cur |-> NoSub,
     expiration_time |-> NoTime, answer |-> NoAnswer, waited |-> 0,
     starting |-> 0, started |-> 0, orphans |-> <<>>]

\* The create_subscription call the renewal scan makes is creators[RenewCreator].
RenewCreator == MaxCreators

\* start_renew_loop(check_interval): called once, by init_graph_webhook.
start_renew_loop(check_interval) ==
    /\ ~renew.running
    /\ renew.pc = "off"
    /\ renew' = [renew EXCEPT !.running = TRUE, !.pc = "test", !.check_interval = check_interval]
    /\ UNCHANGED <<mailVars, subVars, last_error, acctVars>>

\* stop_renew_loop: self.running = False.
stop_renew_loop ==
    /\ renew.running
    /\ renew' = [renew EXCEPT !.running = FALSE]
    /\ UNCHANGED <<mailVars, subVars, last_error, acctVars>>

\* _renew_loop, line 60, and the listing of _check_and_renew_subscriptions,
\* line 76: the loop ends when running is False, else a scan starts.
RenewLoopTest ==
    /\ renew.pc = "test"
    /\ renew' = IF renew.running
                THEN [renew EXCEPT !.pc = "scan",
                          !.todo = get_expiring_subscriptions(subscriptions,
                                                              RENEW_BEFORE_HOURS, now)]
                ELSE [renew EXCEPT !.pc = "exited"]
    /\ UNCHANGED <<mailVars, subVars, last_error, acctVars>>

\* _check_and_renew_subscriptions, lines 78-91, and renew_subscription, lines
\* 205-211: the next subscription of the list; its row goes when the mailbox
\* is gone, else the token request, whose answer is ok, and the new expiration.
RenewToken(sub, ok) ==
    /\ renew.pc = "scan"
    /\ sub \in renew.todo
    /\ ok => HasOAuth(sub.email_id)
    /\ IF sub.email_id \notin EmailIds
       THEN /\ ok
            /\ subscriptions' = db_delete_subscription(subscriptions, sub)
            /\ renew' = [renew EXCEPT !.todo = @ \ {sub}]
       ELSE /\ subscriptions' = subscriptions
            /\ renew' = [renew EXCEPT !.todo = @ \ {sub}, !.cur = sub,
                              !.pc = IF ok THEN "patch" ELSE "recreate",
                              !.answer = IF ok THEN NoAnswer ELSE TokenFailed,
                              !.expiration_time = IF ok THEN MaxExpiration(now) ELSE NoTime]
    /\ UNCHANGED <<mailVars, provider_subs, creators, bulk, last_error, acctVars>>

RenewedAlways(status) == TRUE

\* if response.status_code == 200
Renewed(status) == status = 200

\* renew_subscription, lines 223-234: the PATCH; on 200 the row gets the new
\* expiration, any other answer makes the renewal a failure.
RenewPatch(status) ==
    /\ renew.pc = "patch"
    /\ IF Renewed(status)
       THEN /\ subscriptions' = update_subscription_expiration(subscriptions,
                                    renew.cur.subscription_id, StrfTime(renew.expiration_time))
            /\ renew' = [renew EXCEPT !.pc = "scan", !.answer = status]
       ELSE /\ subscriptions' = subscriptions
            /\ renew' = [renew EXCEPT !.pc = "recreate", !.answer = status]
    /\ UNCHANGED <<mailVars, provider_subs, creators, bulk, last_error, acctVars>>

\* _check_and_renew_subscriptions: create_subscription has returned.
RecreateReturn ==
    /\ renew.pc = "recreate"
    /\ creators[RenewCreator].pc = "done"
    /\ creators' = [creators EXCEPT ![RenewCreator] = IdleCreator]
    /\ renew' = [renew EXCEPT !.pc = "scan"]
    /\ UNCHANGED <<mailVars, subscriptions, provider_subs, bulk, last_error, acctVars>>

\* _check_and_renew_subscriptions is through its list: the loop starts to wait.
ScanEnd ==
    /\ renew.pc = "scan"
    /\ renew.todo = {}
    /\ renew' = [renew EXCEPT !.pc = "wait", !.waited = 0, !.cur = NoSub,
                              !.answer = NoAnswer, !.expiration_time = NoTime]
    /\ UNCHANGED <<mailVars, subVars, last_error, acctVars>>

WaitsOn(running) == FALSE

\* if not self.running: break
WaitBreaks(running) == ~running

\* _renew_loop, lines 67-70: for _ in range(check_interval), the test of
\* running, and the start of time.sleep(1).
WaitTest ==
    /\ renew.pc = "wait"
    /\ renew' = [renew EXCEPT !.pc = IF renew.waited = renew.check_interval THEN "test"
                                     ELSE IF WaitBreaks(renew.running) THEN "test"
                                     ELSE "sleep"]
    /\ UNCHANGED <<mailVars, subVars, last_error, acctVars>>

\* time.sleep(1) returns.
SleepEnd ==
    /\ renew.pc = "sleep"
    /\ renew' = [renew EXCEPT !.pc = "wait", !.waited = @ + 1]
    /\ UNCHANGED <<mailVars, subVars, last_error, acctVars>>

\* ------------------------------------------------------------ the clock
\* Minutes the clock may jump at once: one, or most of a subscription's life.
TickSteps == {1, MAX_EXPIRATION_MINUTES - RENEW_BEFORE_HOURS * 60}

\* Jumps the clock has made, read off its value.
TicksSoFar(t) ==
    ((t - 1) \div (MAX_EXPIRATION_MINUTES - RENEW_BEFORE_HOURS * 60))
        + ((t - 1) % (MAX_EXPIRATION_MINUTES - RENEW_BEFORE_HOURS * 60))

Tick(d) ==
    /\ TicksSoFar(now) < MaxTicks
    /\ now' = now + d
    /\ UNCHANGED <<graph_webhook_handler, processing_emails, processor_emails, mail_records,
                   last_check_time, provider_mail, calls, ws_events, reqs, subVars, otherVars, acctVars>>

\* ------------------------------------------------------- bulk create
BATCH_SIZE == 50
DELAY_BETWEEN_BATCHES == 60
REQUEST_DELAY == 2

\* No create request was made yet.
Never == -1

\* The loop's state and what is observed of it: slept is the time spent in
\* time.sleep, requests and posts count the calls of create_subscription and the
\* POSTs they sent, since_pause the POSTs sent since the last pause between
\* batches.

IdleBulk ==
    [pc |-> "idle", i |-> 0, total |-> 0, created |-> 0, failed |-> 0, skipped |-> 0,
     slept |-> 0, requests |-> 0, first_request |-> Never, last_request |-> Never,
     posts |-> 0, first_post |-> Never, last_post |-> Never,
     throttled |-> 0, not_before |-> 0, since_pause |-> 0]

\* What one call of create_subscription does when nothing runs beside it.
CreateResult(rows, e, ok, resp) ==
    IF ~HasOAuth(e) THEN [result |-> "none", posted |-> FALSE, rows |-> rows]
    ELSE IF get_subscription_by_email_id(rows, e) # {}
         THEN [result |-> "existing", posted |-> FALSE, rows |-> rows]
    ELSE IF ~ok THEN [result |-> "none", posted |-> FALSE, rows |-> rows]
    ELSE IF resp.status = 201
         THEN [result |-> "created", posted |-> TRUE,
               rows |-> add_subscription(rows, e, provider_subs + 1, INBOX_RESOURCE,
                                         StrfTime(MaxExpiration(now)))]
         ELSE [result |-> "none", posted |-> TRUE, rows |-> rows]

\* if result: created += 1
CreatedAfter(created, result) == IF result # "none" THEN created + 1 ELSE created

FailedUncounted(failed, result) == failed

\* elif result is None: failed += 1 / else: failed += 1
FailedAfter(failed, result) == IF result = "none" THEN failed + 1 ELSE failed

NoBatchPause(i, total) == FALSE

\* if (i + 1) % batch_size == 0 and i + 1 < total
BatchPauseDue(i, total) == (i + 1) % BATCH_SIZE = 0 /\ i + 1 < total

\* One turn of the loop of create_subscriptions_for_all_outlook_emails for the
\* mailbox at index i: skip it, or call create_subscription and sleep.
create_subscriptions_for_all_outlook_emails(ok, resp) ==
    /\ bulk.pc = "run"
    /\ bulk.i < bulk.total
    /\ LET e == bulk.i + 1
       IN  IF get_subscription_by_email_id(subscriptions, e) # {}
           THEN /\ bulk' = [bulk EXCEPT !.skipped = @ + 1, !.i = @ + 1]
                /\ UNCHANGED <<subscriptions, provider_subs>>
           ELSE LET out == CreateResult(subscriptions, e, ok, resp)
                    is429 == out.posted /\ resp.status = 429
                    pause == IF BatchPauseDue(bulk.i, bulk.total)
                             THEN DELAY_BETWEEN_BATCHES ELSE 0
                IN  /\ subscriptions' = out.rows
                    /\ provider_subs' = IF out.result = "created"
                                        THEN provider_subs + 1 ELSE provider_subs
                    /\ bulk' = [bulk EXCEPT
                         !.i = @ + 1,
                         !.created = CreatedAfter(@, out.result),
                         !.failed = FailedAfter(@, out.result),
                         !.requests = @ + 1,
                         !.first_request = IF @ = Never THEN bulk.slept ELSE @,
                         !.last_request = bulk.slept,
                         !.posts = IF out.posted THEN @ + 1 ELSE @,
                         !.first_post = IF out.posted /\ @ = Never THEN bulk.slept ELSE @,
                         !.last_post = IF out.posted THEN bulk.slept ELSE @,
                         !.throttled = IF is429 THEN @ + 1 ELSE @,
                         !.not_before = IF is429 THEN bulk.slept + RetryAfter(resp) ELSE @,
                         !.since_pause = IF pause # 0 THEN 0
                                         ELSE IF out.posted THEN @ + 1 ELSE @,
                         !.slept = @ + REQUEST_DELAY + pause]
    /\ UNCHANGED <<mailVars, otherVars, acctVars, creators>>

\* The loop is over: the tallies are returned.
BulkReturn ==
    /\ bulk.pc = "run"
    /\ bulk.i = bulk.total
    /\ bulk' = [bulk EXCEPT !.pc = "done"]
    /\ UNCHANGED <<mailVars, otherVars, acctVars, subscriptions, provider_subs, creators>>

\* ------------------------------------------------- specification Spec
\* Bodies and tokens the webhook deliveries of Spec carry.
Created(cs) == [changeType |-> "created", clientState |-> cs]
Object(ns) == [shape |-> "object", value |-> ns]

\* ------------------------------------------------- accounts at start
\* A row of table emails. Credentials are strings, <<>> when empty.
EmailRow(id, user_id, email, password, client_id, refresh_token, mail_type) ==
    [id |-> id, user_id |-> user_id, email |-> email, password |-> password,
     client_id |-> client_id, refresh_token |-> refresh_token, mail_type |-> mail_type]

\* The two Outlook mailboxes of EmailIds, both of user 1.
OutlookRows ==
    { EmailRow(e, UserOf(e), <<"a", IF e = 1 THEN "1" ELSE "2">>, <<"p">>, <<"c">>,
               IF HasOAuth(e) THEN <<"r">> ELSE <<>>, "outlook") : e \in EmailIds }

NoUser == 0

\* No get_verification_code request has been made.
IdleWaiter ==
    [pc |-> "idle", user |-> NoUser, is_admin |-> FALSE, address |-> <<>>,
     keyword |-> <<>>, timeout |-> 0,
     email_id |-> 0, start_time |-> 0, end_time |-> 0, last_mail_count |-> 0, wake |-> 0,
     reads |-> 0, status |-> 0, code |-> <<>>, answered |-> 0]

\* No import, export, scan or migration pass is running.
IdleTask == [kind |-> "none"]

IdleAccounts ==
    /\ emails = OutlookRows
    /\ email_platforms = {}
    /\ waiter = IdleWaiter
    /\ task = IdleTask

SpecBodies ==
    { Object(<<Created(<<"email_", "1">>)>>),
      Object(<<Created(<<"email_", "2">>)>>),
      Object(<<Created(<<"email_", "1">>), Created(<<"email_", "1">>)>>) }

IdleSubs ==
    /\ subscriptions = {}
    /\ provider_subs = 0
    /\ creators = [k \in Creators |-> IdleCreator]
    /\ bulk = IdleBulk
    /\ renew = IdleRenew

InitMail ==
    /\ graph_webhook_handler \in BOOLEAN
    /\ processing_emails = {}
    /\ processor_emails = {}
    /\ mail_records = {}
    /\ last_check_time = [e \in EmailIds |-> 0]
    /\ last_error = [e \in EmailIds |-> ""]
    /\ now = 1
    /\ provider_mail = [e \in EmailIds |-> {}]
    /\ calls = [token |-> 0, list |-> 0]
    /\ ws_events = {}
    /\ reqs = [r \in Ops |-> FreeReq]

Init == InitMail /\ IdleSubs /\ IdleAccounts

HandlerStep(r) ==
    \/ handle_notification(r)
    \/ NotificationsDone(r)
    \/ \E ok \in BOOLEAN : _process_single_notification(r, ok)
    \/ \E ok \in BOOLEAN : FetchList(r, ok)
    \/ FetchSave(r)
    \/ FetchUpdateTime(r)
    \/ FetchFinally(r)

CheckStep(r) ==
    \/ \E ok \in BOOLEAN : CheckTaskBegin(r, ok)
    \/ \E ok \in BOOLEAN : CheckListInbox(r, ok)
    \/ \E ok \in BOOLEAN : CheckListJunk(r, ok)
    \/ CheckNoMail(r)
    \/ CheckSave(r)
    \/ CheckUpdateTime(r)
    \/ CheckTaskEnd(r)

Next ==
    \/ \E r \in Ops, b \in SpecBodies : graph_webhook_endpoint(r, <<>>, b)
    \/ \E r \in Ops, e \in CheckIds : check_email(r, e)
    \/ \E r \in Ops : HandlerStep(r)
    \/ \E r \in Ops : CheckStep(r)
    \/ \E r \in Ops : Close(r)
    \/ \E f \in Folders : Deliver(1, f, "code")

Spec == Init /\ [][Next]_vars

\* ------------------------------------------- fetches and their overlap
\* Thread r is inside _fetch_new_mail for mailbox e, past the token request.
PushFetching(r, e) ==
    reqs[r].kind = "webhook" /\ reqs[r].cur = e /\ reqs[r].pc \in {"list", "save", "time"}

\* Thread r is inside check_mail for mailbox e, past the token request.
PullFetching(r, e) ==
    reqs[r].kind = "check" /\ reqs[r].cur = e /\ reqs[r].pc \in {"pinbox", "pjunk", "psave", "ptime"}

Fetching(r, e) == PushFetching(r, e) \/ PullFetching(r, e)

\* C1: for any mailbox, no two fetches run together, whichever entry point
\* started them: push never overlaps pull, and no two of one kind overlap.
C1_NoTwoFetches ==
    \A e \in EmailIds : \A r1, r2 \in Ops :
        r1 # r2 => ~(Fetching(r1, e) /\ Fetching(r2, e))

\* The check task of request r has been submitted and has not ended.
Submitted(r) ==
    reqs[r].kind = "check" /\ reqs[r].pc \in {"queued", "pinbox", "pjunk", "psave", "ptime", "pfinally"}

\* C2: of two check requests for one mailbox that overlap in time only one
\* submits a check task; the other is answered 409 and submits none.
C2_OneTaskPerMailbox ==
    \A r1, r2 \in Ops :
        (r1 # r2 /\ Submitted(r1) /\ Submitted(r2)) => reqs[r1].email_id # reqs[r2].email_id

\* Rows of mailbox e that hold provider message m, in whatever form the
\* received time was written.
RowsOf(e, m) ==
    {row \in mail_records : /\ row.email_id = e
                            /\ row.subject = m.subject
                            /\ row.sender = FormatSender(m.from)
                            /\ row.received_time.sec = m.receivedDateTime.sec}

InboxOf(e) == {m \in provider_mail[e] : m.folder = "inbox"}

\* A push fetch of mailbox e has saved every inbox message the provider holds.
PushSavedAll(e) ==
    \E r \in Ops : /\ reqs[r].kind = "webhook" /\ reqs[r].cur = e /\ reqs[r].pc = "time"
                   /\ reqs[r].total = Cardinality(InboxOf(e))

\* C4: however often a 'created' notification is delivered, one after another
\* or overlapping, also overlapping with a pull check, the store holds at most
\* one row for each provider message, and exactly one once a push fetch has
\* saved what it listed.
C4_OneRowPerMessage ==
    \A e \in EmailIds : \A m \in provider_mail[e] :
        /\ Cardinality(RowsOf(e, m)) <= 1
        /\ (PushSavedAll(e) /\ m.folder = "inbox") => Cardinality(RowsOf(e, m)) = 1

\* A push fetch listed a message and every insert reported a duplicate.
C4_Witness ==
    \E r \in Ops : /\ reqs[r].kind = "webhook" /\ reqs[r].pc = "time"
                   /\ reqs[r].total >= 1 /\ reqs[r].new_mails = <<>>
                   /\ \E m \in provider_mail[reqs[r].cur] : Cardinality(RowsOf(reqs[r].cur, m)) = 1

\* Thread r holds mailbox e in the handler's in-flight set.
PushInFlight(r, e) ==
    reqs[r].kind = "webhook" /\ reqs[r].cur = e /\ reqs[r].pc \in {"list", "save", "time", "finally"}

C5_OnePushFetch ==
    \A e \in EmailIds : \A r1, r2 \in Ops :
        r1 # r2 => ~(PushInFlight(r1, e) /\ PushInFlight(r2, e))

\* Thread r is at a 'created' notification for a mailbox that is in flight.
AtInFlightNotification(r) ==
    /\ reqs[r].kind = "webhook" /\ reqs[r].pc = "loop" /\ reqs[r].body.value # <<>>
    /\ NotificationTarget(CurrentNotification(r)) \in processing_emails

C5_DropStep ==
    \A r \in Ops :
        (AtInFlightNotification(r) /\ reqs'[r] # reqs[r]) =>
            /\ reqs'[r].pc = "loop" /\ reqs'[r].cur = 0
            /\ reqs'[r].body.value = Tail(reqs[r].body.value)
            /\ calls' = calls
            /\ mail_records' = mail_records
            /\ last_check_time' = last_check_time
            /\ processing_emails' = processing_emails

\* C5: while a push fetch for a mailbox is in flight, a further 'created'
\* notification for it is dropped: the step that handles it starts no fetch,
\* sends no token or list request and writes nothing to the store; so at most
\* one push fetch per mailbox is in flight.
C5_DroppedWhileInFlight == []C5_OnePushFetch /\ [][C5_DropStep]_vars

\* One thread fetches mailbox 1 and holds the only token request made so far;
\* another has passed its first notification for mailbox 1 without fetching.
C5_Witness ==
    \E r1, r2 \in Ops :
        /\ r1 # r2
        /\ PushInFlight(r1, 1) /\ reqs[r1].pc = "list"
        /\ reqs[r2].kind = "webhook" /\ reqs[r2].pc = "loop" /\ reqs[r2].cur = 0
        /\ reqs[r2].body.value = <<Created(<<"email_", "1">>)>>
        /\ calls = [token |-> 1, list |-> 0]

\* ------------------------------------------- the webhook's HTTP surface
\* Bodies a POST may carry: no JSON at all, JSON that is no object, an object
\* without notifications, and one notification with any clientState.
Notifications == [changeType : ChangeTypes, clientState : SeqsUpTo(CsTokens, MaxCsLen)]

WebhookBodies ==
    {[shape |-> "bad_json", value |-> <<>>], [shape |-> "list", value |-> <<>>], Object(<<>>)}
        \cup {Object(<<n>>) : n \in Notifications}

Tokens == {<<>>, <<"T">>}

\* clientState is 'email_' followed by an integer and nothing else.
IsEmailClientState(cs) ==
    /\ Len(cs) >= 2 /\ cs[1] = "email_"
    /\ \A i \in 2..Len(cs) : cs[i] \in Digits

\* The notifications C8 lets start a fetch.
NamesMailbox(n) ==
    /\ IsEmailClientState(n.clientState)
    /\ DigitsValue(Tail(n.clientState)) \in EmailIds
    /\ n.changeType = "created"

\* No request is open.
Quiet == \A q \in Ops : reqs[q].pc = "none"

\* Every open request is a POST of well-formed notifications for a mailbox.
Calm ==
    \A q \in Ops :
        reqs[q].pc # "none" =>
            /\ reqs[q].method = "POST" /\ reqs[q].vtoken = <<>> /\ reqs[q].body.shape = "object"
            /\ \A i \in 1..Len(reqs[q].body.value) : NamesMailbox(reqs[q].body.value[i])

\* Requests of any shape arrive one after another; well-formed notifications
\* also arrive while others are being handled.
NextWebhook ==
    \/ Quiet /\ \E r \in Ops, t \in Tokens, b \in WebhookBodies : graph_webhook_endpoint(r, t, b)
    \/ Calm /\ \E r \in Ops, b \in SpecBodies : graph_webhook_endpoint(r, <<>>, b)
    \/ Quiet /\ \E r \in Ops, t \in Tokens : serve_frontend(r, t)
    \/ \E r \in Ops : HandlerStep(r)
    \/ \E r \in Ops : Close(r)
    \/ Deliver(1, "inbox", "code")

SpecWebhook == Init /\ [][NextWebhook]_vars

WebhookPost(r) == reqs[r].kind = "webhook" /\ reqs[r].method = "POST"

\* C6: every POST to the webhook endpoint without a validationToken is answered
\* 202, whatever the body, whether or not the handler is initialised, and
\* whatever the fetch does; the answer is there before the fetch has run.
C6_PostAccepted ==
    \A r \in Ops :
        (WebhookPost(r) /\ reqs[r].vtoken = <<>>) => reqs[r].resp = Accepted

\* Two POSTs are answered 202: the fetch of one is in its save loop, the
\* handler thread of the other has not run yet.
C6_Witness ==
    \E r1, r2 \in Ops :
        /\ r1 # r2
        /\ WebhookPost(r1) /\ reqs[r1].vtoken = <<>> /\ reqs[r1].pc = "save"
        /\ reqs[r1].resp.status = 202
        /\ WebhookPost(r2) /\ reqs[r2].vtoken = <<>> /\ reqs[r2].pc = "start"
        /\ reqs[r2].resp.status = 202

\* C7 as stated: a GET with validationToken=T is answered 200 text/plain with
\* body exactly T and starts no notification processing.
C7_GetEchoesToken ==
    \A r \in Ops :
        (reqs[r].kind = "webhook" /\ reqs[r].method = "GET" /\ reqs[r].vtoken # <<>>) =>
            /\ reqs[r].resp = ValidationResponse(reqs[r].vtoken)
            /\ reqs[r].pc = "done"

\* C7: a POST with a non-empty validationToken=T is answered 200 text/plain
\* with body exactly T, and no handler thread is started for its body.
C7_PostEchoesToken ==
    \A r \in Ops :
        (WebhookPost(r) /\ reqs[r].vtoken # <<>>) =>
            /\ reqs[r].resp = [status |-> 200, ctype |-> "text/plain", body |-> reqs[r].vtoken]
            /\ reqs[r].pc = "done" /\ reqs[r].cur = 0

\* A POST with a token and a well-formed notification for mailbox 1 got the
\* token back and nothing is in flight.
C7_Witness ==
    \E r \in Ops :
        /\ WebhookPost(r) /\ reqs[r].vtoken = <<"T">>
        /\ reqs[r].body = Object(<<Created(<<"email_", "1">>)>>)
        /\ reqs[r].resp.body = <<"T">> /\ reqs[r].resp.status = 200
        /\ graph_webhook_handler /\ processing_emails = {}

C8_Step ==
    \A r \in Ops :
        (/\ reqs[r].kind = "webhook" /\ reqs[r].pc = "loop" /\ reqs[r].body.value # <<>>
         /\ reqs'[r] # reqs[r]) =>
            LET n == CurrentNotification(r)
            IN  (reqs'[r].cur # 0) <=>
                    (NamesMailbox(n) /\ DigitsValue(Tail(n.clientState)) \notin processing_emails)

\* C8: a notification starts a fetch if and only if its clientState is exactly
\* 'email_' followed by an integer, the integer is the id of an existing
\* mailbox, its changeType is 'created' and no fetch for the mailbox is in
\* flight; any other notification is discarded and the next one is looked at.
C8_FetchIffWellFormed == [][C8_Step]_vars

\* ------------------------------------------- concurrent create calls
\* ------------------------- DELETE /api/graph/subscriptions/<email_id>
\* DELETE FROM graph_subscriptions WHERE subscription_id = ?
delete_subscription_by_id(rows, subscription_id) ==
    {row \in rows : row.subscription_id # subscription_id}

\* DELETE FROM graph_subscriptions WHERE email_id = ?
delete_subscription_by_email_id(rows, e) == {row \in rows : row.email_id # e}

\* Answers of the provider to DELETE /subscriptions/<id>.
DeleteStatuses == {204, 404}

\* delete_graph_subscription, lines 2049-2060: 400 without a manager, 404 for
\* an unknown mailbox or one without a subscription row; else the row the
\* store returns is handed to GraphWebhookManager.delete_subscription.
delete_graph_subscription(r, e) ==
    /\ IsNext(r)
    /\ \/ /\ ~graph_webhook_handler
          /\ reqs' = [reqs EXCEPT ![r] =
                [FreeReq EXCEPT !.kind = "delete", !.method = "DELETE", !.email_id = e,
                                !.resp = Json(400, "not_configured"), !.pc = "done"]]
       \/ /\ graph_webhook_handler
          /\ e \notin EmailIds \/ get_subscription_by_email_id(subscriptions, e) = {}
          /\ reqs' = [reqs EXCEPT ![r] =
                [FreeReq EXCEPT !.kind = "delete", !.method = "DELETE", !.email_id = e,
                                !.resp = Json(404, "not_found"), !.pc = "done"]]
       \/ /\ graph_webhook_handler
          /\ e \in EmailIds
          /\ \E subscription \in get_subscription_by_email_id(subscriptions, e) :
                reqs' = [reqs EXCEPT ![r] =
                    [FreeReq EXCEPT !.kind = "delete", !.method = "DELETE", !.email_id = e,
                                    !.cur = subscription.subscription_id, !.pc = "token"]]
    /\ UNCHANGED <<graph_webhook_handler, processing_emails, processor_emails, mail_records,
                   last_check_time, now, provider_mail, calls, ws_events, subVars, otherVars, acctVars>>

\* GraphWebhookManager.delete_subscription, lines 252-254, and the handler's
\* else branch: without a token the manager returns False and the handler
\* deletes the mailbox's rows itself.
DeleteToken(r, ok) ==
    /\ reqs[r].kind = "delete" /\ reqs[r].pc = "token"
    /\ ok => HasOAuth(reqs[r].email_id)
    /\ IF ok
       THEN /\ reqs' = [reqs EXCEPT ![r].pc = "delete"]
            /\ UNCHANGED subscriptions
       ELSE /\ subscriptions' = delete_subscription_by_email_id(subscriptions, reqs[r].email_id)
            /\ reqs' = [reqs EXCEPT ![r].resp = Json(200, "success"), ![r].pc = "done"]
    /\ UNCHANGED <<graph_webhook_handler, processing_emails, processor_emails, mail_records,
                   last_check_time, now, provider_mail, calls, ws_events,
                   provider_subs, creators, bulk, otherVars, acctVars>>

\* Lines 261-270 and the handler's two branches: on 200 or 204 the manager
\* deletes the row with that subscription id; on any other answer the handler
\* deletes the rows of the mailbox. Both branches answer success.
DeleteCall(r, status) ==
    /\ reqs[r].kind = "delete" /\ reqs[r].pc = "delete"
    /\ subscriptions' =
          IF status \in {200, 204}
          THEN delete_subscription_by_id(subscriptions, reqs[r].cur)
          ELSE delete_subscription_by_email_id(subscriptions, reqs[r].email_id)
    /\ reqs' = [reqs EXCEPT ![r].resp = Json(200, "success"), ![r].pc = "done"]
    /\ UNCHANGED <<graph_webhook_handler, processing_emails, processor_emails, mail_records,
                   last_check_time, now, provider_mail, calls, ws_events,
                   provider_subs, creators, bulk, otherVars, acctVars>>

InitSub ==
    /\ InitMail
    /\ IdleAccounts
    /\ subscriptions = {}
    /\ provider_subs = 0
    /\ creators = [k \in Creators |-> IdleCreator]
    /\ bulk = IdleBulk
    /\ renew = IdleRenew

NextSub ==
    \/ \E k \in Creators, e \in EmailIds : create_subscription(k, e)
    \/ \E k \in Creators, row \in subscriptions : Recreate(k, row)
    \/ \E k \in Creators : CreateCheck(k)
    \/ \E k \in Creators, ok \in BOOLEAN : CreateToken(k, ok)
    \/ \E k \in Creators, resp \in CreateResponses : CreatePost(k, resp)
    \/ \E r \in Ops, e \in EmailIds \cup {3} : delete_graph_subscription(r, e)
    \/ \E r \in Ops, ok \in BOOLEAN : DeleteToken(r, ok)
    \/ \E r \in Ops, status \in DeleteStatuses : DeleteCall(r, status)
    \/ \E r \in Ops : Close(r)

SpecSub == InitSub /\ [][NextSub]_vars

\* C3: whatever the interleaving of create_subscription calls, the table holds
\* at most one subscription row per mailbox and resource.
C3_OneSubscriptionPerMailbox ==
    \A r1, r2 \in subscriptions :
        (r1.email_id = r2.email_id /\ r1.resource = r2.resource) => r1 = r2

C14_Step ==
    \A r \in Ops :
        (/\ reqs[r].kind = "delete"
         /\ reqs[r].pc # "done"
         /\ reqs'[r].resp = Json(200, "success")) =>
            get_subscription_by_email_id(subscriptions', reqs[r].email_id) = {}

\* C14: when DELETE /api/graph/subscriptions/<email_id> answers success for a
\* mailbox that had a subscription, the table holds no row for that mailbox,
\* whether the provider deleted, refused, or no token could be had.
C14_DeleteLeavesNoRow == [][C14_Step]_vars

\* ------------------------------------------- the bulk loop and its sleeps
\* Fleets large enough for the pause between batches.
LargeFleets == {BATCH_SIZE + 1, 2 * BATCH_SIZE + 1}

InitBulk ==
    /\ InitMail
    /\ IdleAccounts
    /\ renew = IdleRenew
    /\ provider_subs = 0
    /\ creators = [k \in Creators |-> IdleCreator]
    /\ \E total \in (0..MaxBulk) \cup LargeFleets :
        /\ bulk = [IdleBulk EXCEPT !.pc = "run", !.total = total]
        /\ \E subscribed \in IF total <= MaxBulk THEN SUBSET (1..total)
                               ELSE {{}, {BATCH_SIZE}} :
             subscriptions = {[email_id |-> e, subscription_id |-> 0,
                               resource |-> INBOX_RESOURCE,
                               expiration_time |-> StrfTime(MaxExpiration(now))] : e \in subscribed}

\* The provider a large fleet meets answers every request with success.
Steady(ok, resp) == ok /\ resp.status = 201

NextBulk ==
    \/ \E ok \in BOOLEAN, resp \in CreateResponses :
          /\ bulk.total <= MaxBulk \/ Steady(ok, resp)
          /\ create_subscriptions_for_all_outlook_emails(ok, resp)
    \/ BulkReturn

SpecBulk == InitBulk /\ [][NextBulk]_vars

C9_Step ==
    bulk'.requests > bulk.requests => bulk.slept >= bulk.not_before

\* C9: after a create request was answered 429 the loop makes no further create
\* request before Retry-After seconds (60 without the header) have been slept.
C9_WaitsRetryAfter == [][C9_Step]_vars

\* 2*(n-1) + 60*floor((n-1)/50)
RateFloor(n) == REQUEST_DELAY * (n - 1) + DELAY_BETWEEN_BATCHES * ((n - 1) \div BATCH_SIZE)

\* C10: in a bulk create where no mailbox is skipped as subscribed and no
\* request is throttled, the time slept between the first and the last create
\* request is at least 2*(n-1) + 60*floor((n-1)/50) for the n requests made,
\* counted as calls of create_subscription and counted as POSTs sent; when the
\* loop ends n calls were made for the n mailboxes.
C10_RateDiscipline ==
    (bulk.skipped = 0 /\ bulk.throttled = 0) =>
        /\ bulk.requests >= 1 =>
               bulk.last_request - bulk.first_request >= RateFloor(bulk.requests)
        /\ bulk.posts >= 1 => bulk.last_post - bulk.first_post >= RateFloor(bulk.posts)
        /\ bulk.pc = "done" => bulk.requests = bulk.total

\* A fleet of 51 was worked through: 50 waits of 2 s and one pause of 60 s lie
\* between the first and the last create request.
C10_Witness ==
    /\ bulk.pc = "done" /\ bulk.total = BATCH_SIZE + 1
    /\ bulk.skipped = 0 /\ bulk.throttled = 0
    /\ bulk.requests = BATCH_SIZE + 1
    /\ bulk.last_request - bulk.first_request = 160

C16_Step ==
    /\ bulk'.i \in {bulk.i, bulk.i + 1}
    /\ bulk'.i = bulk.i + 1 =>
          bulk'.created + bulk'.failed + bulk'.skipped
              = bulk.created + bulk.failed + bulk.skipped + 1
    /\ (bulk.pc = "run" /\ bulk.i < bulk.total) => bulk'.pc = "run" /\ bulk'.i = bulk.i + 1
    /\ bulk'.pc = "done" => bulk.i = bulk.total

OldRows ==
    {[email_id |-> e, subscription_id |-> e, resource |-> INBOX_RESOURCE,
      expiration_time |-> StrfTime(MaxExpiration(1))] : e \in 1..3}

InitRenew ==
    /\ InitMail
    /\ IdleAccounts
    /\ subscriptions \in SUBSET OldRows
    /\ provider_subs = 3
    /\ creators = [k \in Creators |-> IdleCreator]
    /\ bulk = IdleBulk
    /\ renew = IdleRenew

\* The steps of the loop thread, the create_subscription call of a failed
\* renewal included.
RenewStep ==
    \/ RenewLoopTest
    \/ \E sub \in renew.todo, ok \in BOOLEAN : RenewToken(sub, ok)
    \/ \E status \in PatchStatuses : RenewPatch(status)
    \/ renew.pc = "recreate" /\ creators[RenewCreator].pc = "idle"
          /\ Recreate(RenewCreator, renew.cur)
    \/ CreateCheck(RenewCreator)
    \/ \E ok \in BOOLEAN : CreateToken(RenewCreator, ok)
    \/ \E resp \in CreateResponses : CreatePost(RenewCreator, resp)
    \/ RecreateReturn
    \/ ScanEnd
    \/ WaitTest
    \/ SleepEnd

NextRenew ==
    \/ \E check_interval \in 1..MaxInterval : start_renew_loop(check_interval)
    \/ stop_renew_loop
    \/ RenewStep
    \/ \E d \in TickSteps : Tick(d)

\* The loop thread is scheduled as long as it has a step to take.
SpecRenew == InitRenew /\ [][NextRenew]_vars /\ WF_vars(RenewStep)

C11_Step ==
    \A row \in subscriptions' \ subscriptions :
        row.expiration_time.sec <= now' + MAX_EXPIRATION_MINUTES

\* C11: a subscription row written by create_subscription or updated by
\* renew_subscription expires no later than 4230 minutes after the moment it
\* is written.
C11_ExpirationBound == [][C11_Step]_vars

\* A row was renewed after the clock had moved on from the moment the new
\* expiration was computed.
C11_Witness ==
    /\ renew.answer = 200
    /\ \E row \in subscriptions :
          /\ row.subscription_id = renew.cur.subscription_id
          /\ row.expiration_time = StrfTime(renew.expiration_time)
          /\ row.expiration_time.sec < now + MAX_EXPIRATION_MINUTES

C12_Step ==
    /\ (renew.pc = "patch" /\ renew'.pc # "patch") =>
          IF renew'.answer = 200
          THEN /\ renew'.pc = "scan"
               /\ Cardinality(subscriptions') = Cardinality(subscriptions)
               /\ \E row \in subscriptions' :
                     /\ row.subscription_id = renew.cur.subscription_id
                     /\ row.email_id = renew.cur.email_id
                     /\ row.expiration_time.sec = renew.expiration_time.sec
                     /\ row.expiration_time.sec > renew.cur.expiration_time.sec
          ELSE renew'.pc = "recreate" /\ subscriptions' = subscriptions
    /\ (renew.pc = "scan" /\ renew'.pc = "recreate") => subscriptions' = subscriptions
    /\ (renew.pc = "recreate" /\ creators[RenewCreator].pc = "idle" /\ creators' # creators) =>
          /\ renew.cur \notin subscriptions'
          /\ creators'[RenewCreator].pc = "check"
          /\ creators'[RenewCreator].email_id = renew.cur.email_id
    /\ (renew.pc = "recreate" /\ renew'.pc # "recreate") => renew.cur \notin subscriptions

\* C12: in the renewal scan a renewal the provider answers with 200 keeps the
\* row and gives it the expiration that was requested; a renewal that fails
\* (no token, or any other answer) is followed by the removal of the row and
\* then a create_subscription call for the same mailbox.
C12_RenewOrRecreate == [][C12_Step]_vars

\* A renewal failed, the old row is gone and create_subscription has made a
\* new subscription for the mailbox.
C12_Witness ==
    /\ renew.pc = "recreate"
    /\ renew.answer = 404
    /\ creators[RenewCreator].result = "created"
    /\ renew.cur \notin subscriptions
    /\ \E row \in subscriptions : row.email_id = renew.cur.email_id

C13_Step ==
    (renew.pc = "patch" /\ renew'.answer = 429) =>
        /\ subscriptions' = subscriptions
        /\ renew'.pc # "recreate"

\* C13: a renewal answered with 429 leaves the row in place with its
\* expiration unchanged and is followed by no delete and no recreate in that
\* scan.
C13_ThrottledRenewKeepsRow == [][C13_Step]_vars

C15_Step ==
    ~renew.running =>
        /\ renew'.pc = "scan" => renew.pc \in {"scan", "patch", "recreate"}
        /\ renew'.pc = "sleep" => renew.pc = "sleep"

\* The stop signal was raised: the loop was started and running is False.
Stopped == renew.pc # "off" /\ ~renew.running

InitSync == Init /\ graph_webhook_handler

\* The instant now is that of a message or of a check time; the clock is not
\* moved past an instant nothing has happened at.
Used(t) ==
    \/ last_check_time[1] = t
    \/ \E m \in provider_mail[1] : m.receivedDateTime.sec = t

\* Jobs of mailbox 1: webhook deliveries and check requests, new mail at the
\* provider, and the clock.
NextSync ==
    \/ \E r \in Ops : graph_webhook_endpoint(r, <<>>, Object(<<Created(<<"email_", "1">>)>>))
    \/ \E r \in Ops : check_email(r, 1)
    \/ \E r \in Ops : HandlerStep(r)
    \/ \E r \in Ops : CheckStep(r)
    \/ \E f \in Folders : Deliver(1, f, "code")
    \/ Used(now) /\ Tick(1)

SpecSync == InitSync /\ [][NextSync]_vars

\* check_mail runs of mailbox 1 whose callback raises at a milestone.
NextCallback ==
    \/ \E r \in Ops, at \in Milestones : check_mail_raising(r, 1, at)
    \/ \E r \in Ops : CheckStep(r)
    \/ \E f \in Folders : Deliver(1, f, "code")

SpecCallback == Init /\ [][NextCallback]_vars

\* Rows stored for mailbox e.
Stored(e) == {row \in mail_records : row.email_id = e}

\* Request r changes in this step.
Moves(r) == reqs'[r] # reqs[r]

\* Request r fails to get a token in this step.
TokenRefused(r) ==
    /\ Moves(r)
    /\ calls'.token = calls.token + 1
    /\ \/ reqs[r].pc = "loop" /\ reqs'[r].pc = "finally"
       \/ reqs[r].pc = "queued" /\ reqs'[r].pc = "pfinally" /\ reqs'[r].resp = Failed

C17_Step ==
    \A r \in Ops :
        TokenRefused(r) =>
            /\ calls'.list = calls.list
            /\ mail_records' = mail_records
            /\ reqs'[r].msgs = <<>>
            /\ last_error'[reqs'[r].cur] # ""

\* C17: when the token refresh of a push fetch or of a pull check fails, the
\* job goes to its end without listing and without storing a message, and the
\* mailbox's last_error is set.
C17_TokenFailureRecorded == [][C17_Step]_vars

\* Check r lists a folder in this step.
PullLists(r) ==
    /\ reqs[r].kind = "check"
    /\ reqs[r].pc \in {"pinbox", "pjunk"}
    /\ Moves(r)
    /\ calls'.list = calls.list + 1

C18_OriginalStep ==
    \A r \in Ops :
        PullLists(r) =>
            LET e == reqs[r].cur
            IN  /\ Stored(e) = {} => reqs'[r].since = NoSince
                /\ Stored(e) # {} =>
                      /\ last_check_time[e] # 0
                      /\ reqs'[r].since = IsoTime(last_check_time[e])
                /\ reqs[r].lct # 0 => reqs'[r].since = IsoTime(last_check_time[e])

\* C18 as stated: a pull check of a mailbox with no stored message lists with
\* no receivedDateTime filter; with a stored message it lists with the filter
\* receivedDateTime ge the mailbox's last_check_time; a pull check requested
\* after a sync has set last_check_time carries the filter with that time.
C18_FilterByLastCheckTime == [][C18_OriginalStep]_vars

\* No push fetch and no check task of mailbox e is under way or queued.
Settled(e) ==
    \A r \in Ops :
        /\ ~(reqs[r].kind = "webhook" /\ reqs[r].pc \in {"start", "loop", "list", "save", "time", "finally"})
        /\ ~(reqs[r].kind = "check" /\ reqs[r].email_id = e /\ reqs[r].pc # "done")

C18_Step ==
    \A r \in Ops :
        /\ (reqs[r].pc = "queued" /\ reqs'[r].pc = "pinbox") =>
              reqs'[r].first_sync = (Stored(reqs'[r].cur) = {})
        /\ PullLists(r) =>
              /\ reqs[r].first_sync => reqs'[r].since = NoSince
              /\ (~reqs[r].first_sync /\ reqs[r].lct = 0) => reqs'[r].since = NoSince
              /\ (~reqs[r].first_sync /\ reqs[r].lct # 0) =>
                    /\ reqs'[r].since = IsoTime(reqs[r].lct)
                    /\ reqs[r].lct <= last_check_time[reqs[r].cur]
        /\ (reqs[r].kind = "none" /\ reqs'[r].kind = "check" /\ reqs'[r].pc = "queued"
              /\ Settled(reqs'[r].email_id) /\ Stored(reqs'[r].email_id) # {}) =>
              /\ reqs'[r].lct = last_check_time[reqs'[r].email_id]
              /\ reqs'[r].lct # 0

\* C18, amended: a pull check whose probe finds no stored message lists with
\* no filter; one whose probe finds a stored message lists with the filter
\* receivedDateTime ge the last_check_time read when the check was requested,
\* which is never later than the mailbox's, and with no filter when none was
\* set then; a check requested while no job of the mailbox runs and a message
\* is stored reads the last_check_time the last sync set.
C18_FilterByProbeAndSnapshot == [][C18_Step]_vars

\* A first sync stored a message and set last_check_time; the next pull lists
\* with the filter on that time.
C18_Witness ==
    \E r \in Ops :
        /\ reqs[r].kind = "check" /\ reqs[r].pc = "pjunk"
        /\ ~reqs[r].first_sync
        /\ reqs[r].since = IsoTime(last_check_time[1])
        /\ \E q \in Ops : reqs[q].kind = "check" /\ reqs[q].pc = "done"
                            /\ reqs[q].resp = Json(200, "success")
        /\ Settled(2) /\ \A q \in Ops : reqs[q].kind # "webhook"

C19_Step == \A e \in EmailIds : last_check_time'[e] >= last_check_time[e]

C20_Step ==
    \A r \in Ops :
        (reqs[r].kind = "check" /\ reqs[r].raises # NoRaise /\ Moves(r)) =>
            /\ reqs'[r].resp \notin {Caught, Escaped}
            /\ (reqs[r].pc = "queued" /\ reqs'[r].pc = "pfinally" /\ HasOAuth(reqs'[r].cur)) =>
                  calls'.token = calls.token + 1
            /\ (reqs[r].pc \in {"pinbox", "pjunk"} /\ reqs'[r].pc # reqs[r].pc) =>
                  calls'.list = calls.list + 1
            /\ (reqs[r].pc = "psave" /\ reqs[r].msgs # <<>>) => mail_records' # mail_records
                  \/ Stored(reqs[r].cur) # {}
            /\ (reqs'[r].pc = "pfinally" /\ reqs[r].pc \in {"psave", "ptime"}) =>
                  /\ last_check_time'[reqs[r].cur] = now
                  /\ reqs'[r].resp = Json(200, "success")

\* C20: a check_mail run whose callback raises at a milestone does what a run
\* with a sound callback does: it asks for the token, lists both folders,
\* stores what was listed, sets last_check_time and returns the success
\* result, never the result of the except branch and never an exception.
C20_CallbackFaultsSwallowed == [][C20_Step]_vars

\* ------------------------------------------------- verification codes
\* Subjects and contents are strings over the words "code" and "Code", the
\* letter "x", the blank and the digit "1". The remaining keywords and the
\* words of the remaining code_patterns do not occur in this alphabet, so of
\* code_patterns the texts can match 'code[:\s]*(\d{4,8})' and '\b(\d{4,8})\b'.

\* Longest run of digits in a text.
MaxRun == 9

\* str.lower()
Lower(c) ==
    IF c = "Code" THEN "code" ELSE IF c = "A" THEN "a" ELSE IF c = "Ex" THEN "ex"
    ELSE IF c = "Acme" THEN "acme" ELSE c
LowerStr(s) == [i \in DOMAIN s |-> Lower(s[i])]

\* needle in hay
Contains(hay, needle) ==
    \E i \in 1..(Len(hay) - Len(needle) + 1) : SubSeq(hay, i, i + Len(needle) - 1) = needle

code_keywords == {<<"code">>}

\* The keyword filter: the caller's keyword, or any of code_keywords, is in
\* the subject or in the content, letter case ignored.
HasKeyword(mail, keyword) ==
    LET in(kw) == \/ Contains(LowerStr(mail.subject), LowerStr(kw))
                  \/ Contains(LowerStr(mail.content), LowerStr(kw))
    IN  IF keyword # <<>> THEN in(keyword) ELSE \E kw \in code_keywords : in(kw)

IsDigit(c) == c \in Digits
\* \w
IsWord(c) == c # " "

RECURSIVE DigitRun(_, _)
\* Number of digits the text has from position i on.
DigitRun(text, i) ==
    IF i <= Len(text) /\ IsDigit(text[i]) THEN 1 + DigitRun(text, i + 1) ELSE 0

RECURSIVE SkipBlanks(_, _)
\* [:\s]* from position i: the position of the first character that is no blank.
SkipBlanks(text, i) ==
    IF i <= Len(text) /\ text[i] = " " THEN SkipBlanks(text, i + 1) ELSE i

\* (\d{4,8}) at position i: the digits captured, <<>> when fewer than 4.
Capture(text, i) ==
    LET n == DigitRun(text, i)
    IN  IF n < 4 THEN <<>> ELSE SubSeq(text, i, i + (IF n > 8 THEN 8 ELSE n) - 1)

\* 'code[:\s]*(\d{4,8})' with re.IGNORECASE matched at position i.
KeywordMatch(text, i) ==
    IF Lower(text[i]) = "code" THEN Capture(text, SkipBlanks(text, i + 1)) ELSE <<>>

\* '\b(\d{4,8})\b' matched at position i: a whole word of 4 to 8 digits.
WordMatch(text, i) ==
    LET n == DigitRun(text, i)
    IN  IF /\ i = 1 \/ ~IsWord(text[i - 1])
           /\ n >= 4 /\ n <= 8
           /\ i + n > Len(text) \/ ~IsWord(text[i + n])
        THEN SubSeq(text, i, i + n - 1) ELSE <<>>

\* re.findall(pattern, text)[0]: the capture of the leftmost match.
FindFirst(Match(_, _), text) ==
    LET leftmost == {i \in 1..Len(text) : /\ Match(text, i) # <<>>
                                          /\ \A j \in 1..(i - 1) : Match(text, j) = <<>>}
    IN  IF leftmost = {} THEN <<>> ELSE CHOOSE c \in {Match(text, i) : i \in leftmost} : TRUE

\* code.isdigit() and 4 <= len(code) <= 8
ValidCode(code) ==
    /\ Len(code) >= 4 /\ Len(code) <= 8
    /\ \A i \in 1..Len(code) : IsDigit(code[i])

\* The first run of four or more digits, whole.
FirstRun(text) ==
    LET starts == {i \in 1..Len(text) : /\ DigitRun(text, i) >= 4
                                        /\ i = 1 \/ ~IsDigit(text[i - 1])}
    IN  IF starts = {} THEN <<>>
        ELSE LET i == CHOOSE k \in starts : \A j \in starts : k <= j
             IN  SubSeq(text, i, i + DigitRun(text, i) - 1)

\* The loop over code_patterns: the first pattern whose first match is a
\* valid code gives the code, <<>> when none does.
FirstCode(text) ==
    LET byKeyword == FindFirst(KeywordMatch, text)
        byWord    == FindFirst(WordMatch, text)
    IN  IF ValidCode(byKeyword) THEN byKeyword
        ELSE IF ValidCode(byWord) THEN byWord
        ELSE <<>>

\* extract_code_from_mail: <<>> stands for None.
extract_code_from_mail(mail, keyword) ==
    IF ~HasKeyword(mail, keyword) THEN <<>>
    ELSE FirstCode(mail.subject \o <<" ">> \o mail.content)

Run(n) == [i \in 1..n |-> "1"]

\* Texts: at most one run of digits, after a word or a letter or at the
\* start, before a letter or at the end.
TextsBefore == {<<>>, <<"code">>, <<"Code", " ">>, <<"x">>, <<"x", " ">>}
TextsAfter  == {<<>>, <<"x">>, <<" ", "x">>}
CodeTexts == {pre \o Run(n) \o post : pre \in TextsBefore, n \in 0..MaxRun, post \in TextsAfter}
Keywords == {<<>>, <<"code">>, <<"x">>}

\* One message is examined for a code.
InitCode ==
    /\ InitMail /\ IdleSubs
    /\ emails = OutlookRows /\ email_platforms = {} /\ waiter = IdleWaiter
    /\ \E subject \in CodeTexts, content \in {<<>>, <<"code">>}, keyword \in Keywords :
          task = [kind |-> "extract", pc |-> "ready", keyword |-> keyword,
                  mail |-> [subject |-> subject, content |-> content], code |-> <<>>]

ExtractCode ==
    /\ task.kind = "extract" /\ task.pc = "ready"
    /\ task' = [task EXCEPT !.pc = "done",
                            !.code = extract_code_from_mail(task.mail, task.keyword)]
    /\ UNCHANGED <<mailVars, subVars, otherVars, emails, email_platforms, waiter>>

SpecCode == InitCode /\ [][ExtractCode]_vars

\* C21: a code that wait_for_code answers with is made of digits only and
\* has between 4 and 8 of them; none is longer than 8 digits.
C21_CodeIsFourToEightDigits ==
    (task.kind = "extract" /\ task.pc = "done" /\ task.code # <<>>) =>
        /\ Len(task.code) \in 4..8
        /\ \A i \in 1..Len(task.code) : task.code[i] \in Digits

\* The subject has a run of more than 8 digits after the keyword and a
\* code was taken from it.
C21_Witness ==
    /\ task.kind = "extract" /\ task.pc = "done" /\ task.code # <<>>
    /\ \E i \in 1..Len(task.mail.subject) : DigitRun(task.mail.subject, i) > 8

\* ------------------------------------------------ get_verification_code
\* Largest timeout a request asks for, in seconds.
MaxTimeout == 3
\* Messages stored per run.
MaxMails == 2

\* Seconds the initial scan looks back from start_time.
RECENT_SECONDS == 30
\* Seconds the loop looks back from start_time.
LOOP_SECONDS == 10
\* check_interval
CHECK_INTERVAL == 2

\* db.get_all_emails(user_id): the rows of the user, every row without one.
get_all_emails(rows, user_id) ==
    IF user_id = NoUser THEN rows ELSE {row \in rows : row.user_id = user_id}

\* Every row of the table, whoever asks.
AllEmails(rows, user, is_admin) == get_all_emails(rows, NoUser)

\* The mailboxes the lookup of get_verification_code goes through.
VisibleEmails(rows, user, is_admin) ==
    IF is_admin THEN get_all_emails(rows, NoUser) ELSE get_all_emails(rows, user)

\* The first visible row whose address is the requested one, letter case
\* ignored; 0 when there is none. Addresses are unique in the table.
FindEmail(rows, user, is_admin, address) ==
    LET hits == {row \in VisibleEmails(rows, user, is_admin) :
                     LowerStr(row.email) = LowerStr(address)}
    IN  IF hits = {} THEN 0 ELSE (CHOOSE row \in hits : TRUE).id

\* db.get_mail_records(email_id)
get_mail_records(rows, e) == {row \in rows : row.email_id = e}

\* The dict extract_code_from_mail reads; rows carry no content here, so
\* mail.get('content', '') is the empty string.
MailDict(row) == [subject |-> row.subject, content |-> <<>>]

\* The rows received at or after limit that give a code.
WithCode(rows, keyword, limit) ==
    {row \in rows : /\ row.received_time.fmt # "none"
                    /\ row.received_time.sec >= limit
                    /\ extract_code_from_mail(MailDict(row), keyword) # <<>>}

\* sorted(..., reverse=True)[0] among the rows with a code
Newest(rows) == CHOOSE row \in rows : \A other \in rows :
                    \/ row.received_time.sec > other.received_time.sec
                    \/ row.received_time.sec = other.received_time.sec /\ row.id >= other.id

Answer(w, status, code) ==
    [w EXCEPT !.pc = "done", !.status = status, !.code = code, !.answered = now]

\* The request up to the loop: the lookup, then the scan of the messages
\* received in the last 30 seconds, newest first.
get_verification_code(user, is_admin, address, keyword, timeout) ==
    /\ waiter.pc = "idle"
    /\ LET e    == FindEmail(emails, user, is_admin, address)
           w    == [waiter EXCEPT !.user = user, !.is_admin = is_admin, !.address = address,
                                  !.keyword = keyword, !.timeout = timeout, !.email_id = e]
           rows == get_mail_records(mail_records, e)
           hits == WithCode(rows, keyword, now - RECENT_SECONDS)
       IN  IF e = 0
           THEN waiter' = Answer(w, 404, <<>>)
           ELSE LET started == [w EXCEPT !.start_time = now, !.end_time = now + timeout,
                                         !.reads = 1]
                IN  IF hits # {}
                    THEN waiter' = Answer(started, 200,
                               extract_code_from_mail(MailDict(Newest(hits)), keyword))
                    ELSE waiter' = [started EXCEPT !.pc = "test",
                                                   !.last_mail_count = Cardinality(rows)]
    /\ UNCHANGED <<mailVars, subVars, otherVars, emails, email_platforms, task>>

\* The loop goes on after the deadline too.
WaitsThrough(t, end_time) == t <= end_time

\* datetime.now() < end_time
StillWaiting(t, end_time) == t < end_time

\* The store must have grown by two rows.
GrewByTwo(rows, last_mail_count) == Cardinality(rows) > last_mail_count + 1

\* len(mail_records) > last_mail_count
HasNewMail(rows, last_mail_count) == Cardinality(rows) > last_mail_count

\* while datetime.now() < end_time
WaitLoopTest ==
    /\ waiter.pc = "test"
    /\ waiter' = IF StillWaiting(now, waiter.end_time)
                 THEN [waiter EXCEPT !.pc = "sleep", !.wake = now + CHECK_INTERVAL]
                 ELSE Answer(waiter, 404, <<>>)
    /\ UNCHANGED <<mailVars, subVars, otherVars, emails, email_platforms, task>>

\* After time.sleep(check_interval): the store is read again, and when it has
\* more rows than last time every row received since 10 seconds before
\* start_time is examined, in the order the store lists them.
WaitPoll ==
    /\ waiter.pc = "sleep" /\ now >= waiter.wake
    /\ LET rows == get_mail_records(mail_records, waiter.email_id)
           hits == WithCode(rows, waiter.keyword, waiter.start_time - LOOP_SECONDS)
           read == [waiter EXCEPT !.reads = @ + 1]
       IN  waiter' \in
             IF HasNewMail(rows, waiter.last_mail_count)
             THEN IF hits # {}
                  THEN {Answer(read, 200, extract_code_from_mail(MailDict(row), waiter.keyword)) :
                            row \in hits}
                  ELSE {[read EXCEPT !.pc = "test", !.last_mail_count = Cardinality(rows)]}
             ELSE {[read EXCEPT !.pc = "test"]}
    /\ UNCHANGED <<mailVars, subVars, otherVars, emails, email_platforms, task>>

\* A second passes while the request sleeps.
WaitTick ==
    /\ waiter.pc = "sleep" /\ now < waiter.wake
    /\ now' = now + 1
    /\ UNCHANGED <<graph_webhook_handler, processing_emails, processor_emails, mail_records,
                   last_check_time, provider_mail, calls, ws_events, reqs, subVars, otherVars,
                   acctVars>>

\* A fetch commits a message of mailbox e, received now.
StoreMail(e, subject) ==
    /\ Cardinality(mail_records) < MaxMails
    /\ waiter.pc # "done"
    /\ mail_records' = add_mail_record(mail_records, e,
                           [subject |-> subject, sender |-> <<"n", " <", "a", ">">>],
                           [fmt |-> "sql", sec |-> now], "inbox").rows
    /\ UNCHANGED <<graph_webhook_handler, processing_emails, processor_emails,
                   last_check_time, now, provider_mail, calls, ws_events, reqs, subVars,
                   otherVars, acctVars>>

\* Mailbox 3 belongs to user 2.
OtherRow == EmailRow(3, 2, <<"b">>, <<"p">>, <<"c">>, <<"r">>, "outlook")
WaitUsers == {1, 2}
WaitAddresses == {<<"a", "1">>, <<"A", "1">>, <<"b">>, <<"x">>}
WaitKeywords == {<<>>, <<"x">>}
WaitSubjects == {<<"code">> \o Run(4), <<"x", " ">> \o Run(4), <<"x">>}
\* Ages in seconds of a message the store holds at the start.
OldAges == {RECENT_SECONDS, RECENT_SECONDS + 1}

InitWait ==
    /\ graph_webhook_handler = FALSE
    /\ processing_emails = {}
    /\ processor_emails = {}
    /\ last_check_time = [e \in EmailIds |-> 0]
    /\ last_error = [e \in EmailIds |-> ""]
    /\ now = 1
    /\ provider_mail = [e \in EmailIds |-> {}]
    /\ calls = [token |-> 0, list |-> 0]
    /\ ws_events = {}
    /\ reqs = [r \in Ops |-> FreeReq]
    /\ IdleSubs
    /\ emails = OutlookRows \cup {OtherRow}
    /\ email_platforms = {}
    /\ waiter = IdleWaiter
    /\ task = IdleTask
    /\ \/ mail_records = {}
       \/ \E age \in OldAges :
             mail_records = add_mail_record({}, 1,
                                [subject |-> <<"code">> \o Run(4), sender |-> <<"o">>],
                                [fmt |-> "sql", sec |-> now - age], "inbox").rows

WaitStep ==
    \/ WaitLoopTest
    \/ WaitPoll
    \/ WaitTick

NextWait ==
    \/ \E user \in WaitUsers, is_admin \in BOOLEAN, address \in WaitAddresses,
          keyword \in WaitKeywords, timeout \in 0..MaxTimeout :
          get_verification_code(user, is_admin, address, keyword, timeout)
    \/ WaitStep
    \/ \E e \in {1, 3}, subject \in WaitSubjects : StoreMail(e, subject)

SpecWait == InitWait /\ [][NextWait]_vars

\* Requests of user 1 for mailbox 1 with the default keywords.
NextTimeout ==
    \/ \E timeout \in 0..MaxTimeout :
          get_verification_code(1, FALSE, <<"a", "1">>, <<>>, timeout)
    \/ WaitStep
    \/ \E subject \in WaitSubjects : StoreMail(1, subject)

\* The request thread runs and the clock advances.
SpecTimeout ==
    /\ InitWait /\ [][NextTimeout]_vars
    /\ WF_vars(WaitLoopTest) /\ WF_vars(WaitPoll) /\ WF_vars(WaitTick)

\* The stored messages of the waiter's mailbox that pass its keyword filter,
\* contain a code and were received at or after start_time.
Qualifying ==
    {row \in WithCode(get_mail_records(mail_records, waiter.email_id), waiter.keyword,
                      waiter.start_time) : TRUE}

Waited == waiter.pc = "done" /\ waiter.email_id # 0

NotFoundOnTime ==
    (Waited /\ waiter.status = 404) =>
        /\ waiter.answered >= waiter.end_time
        /\ waiter.answered < waiter.end_time + CHECK_INTERVAL

\* C23: a request whose mailbox has no matching message ends: it answers
\* not_found, not before timeout seconds have passed and less than one poll
\* interval after them.
C23_TimesOut ==
    (waiter.pc \in {"test", "sleep"}) ~> (waiter.pc = "done" /\ NotFoundOnTime)

\* not_found after the full timeout, the last poll falling after the deadline.
C23_Witness ==
    /\ Waited /\ waiter.status = 404 /\ waiter.timeout = MaxTimeout
    /\ waiter.reads >= 2
    /\ waiter.answered > waiter.end_time

\* The requested address is none of the caller's own mailboxes.
NotOwn ==
    ~\E row \in emails : /\ row.user_id = waiter.user
                         /\ LowerStr(row.email) = LowerStr(waiter.address)

\* C24: a user who is no admin and asks for an address that is none of their
\* mailboxes gets not_found with no message read, and a code a user who is no
\* admin gets is from a mailbox of theirs.
C24_ScopedToCaller ==
    (waiter.pc # "idle" /\ ~waiter.is_admin) =>
        /\ NotOwn => /\ waiter.pc = "done" /\ waiter.status = 404
                     /\ waiter.reads = 0 /\ waiter.code = <<>>
        /\ waiter.status = 200 =>
              \E row \in emails : row.id = waiter.email_id /\ row.user_id = waiter.user

\* User 2 asked for the mailbox of user 1 that holds a message with a code.
C24_Witness ==
    /\ waiter.pc = "done" /\ ~waiter.is_admin /\ waiter.user = 2 /\ NotOwn
    /\ \E row \in emails : LowerStr(row.email) = LowerStr(waiter.address)
    /\ WithCode(get_mail_records(mail_records, 1), waiter.keyword, 1) # {}
    /\ waiter.status = 404

\* ------------------------------------------------- platform classifier
\* Stored messages the scan goes through.
MaxScan == 2

\* db._extract_sender_domain: what follows "@", up to ">", in lower case;
\* <<>> when the sender has no "@".
_extract_sender_domain(sender) ==
    LET ats == {i \in 1..Len(sender) : sender[i] = "@"}
    IN  IF ats = {} THEN <<>>
        ELSE LET at   == CHOOSE i \in ats : \A j \in ats : i <= j
                 rest == SubSeq(sender, at + 1, Len(sender))
             IN  LowerStr(SelectSeq(rest, LAMBDA c : c # ">"))

\* db.get_platform_correction: the corrected name, <<>> when there is none.
get_platform_correction(corrections, user, domain) ==
    LET hits == {c \in corrections : c.user_id = user /\ c.sender_domain = domain}
    IN  IF hits = {} THEN <<>> ELSE (CHOOSE c \in hits : TRUE).corrected_name

\* db.match_platform_rules: the names of the user's enabled rules whose
\* pattern is found in the subject.
match_platform_rules(rules, user, sender, subject) ==
    {rule.platform_name : rule \in {x \in rules : /\ x.user_id = user /\ x.is_enabled
                                                  /\ Contains(subject, x.subject_pattern)}}

\* db._detect_registration_email: at most one inferred name.
_detect_registration_email(sender, subject) ==
    IF Contains(LowerStr(subject), <<"code">>) THEN <<"Signup">> ELSE <<>>

\* db.add_email_platform: a tag of the mailbox that differs from the name in
\* letter case only keeps the name from being added.
add_email_platform(tags, e, name) ==
    IF \E tag \in tags : tag.email_id = e /\ LowerStr(tag.platform_name) = LowerStr(name)
    THEN tags ELSE tags \cup {[email_id |-> e, platform_name |-> name]}

RulesOrHeuristic(rules, user, mail) ==
    LET matched  == match_platform_rules(rules, user, mail.sender, mail.subject)
        platform == _detect_registration_email(mail.sender, mail.subject)
    IN  IF matched # {} THEN matched
        ELSE IF platform # <<>> THEN {platform} ELSE {}

\* The correction is one more name next to those of the rules.
ClassifyAll(corrections, rules, user, mail) ==
    LET corrected == get_platform_correction(corrections, user,
                                             _extract_sender_domain(mail.sender))
    IN  (IF corrected # <<>> THEN {corrected} ELSE {}) \cup RulesOrHeuristic(rules, user, mail)

\* The names the scan adds for one message: the corrected name alone when the
\* sender domain has a correction, else the rules, else the heuristic.
Classify(corrections, rules, user, mail) ==
    LET sender_domain == _extract_sender_domain(mail.sender)
        corrected     == get_platform_correction(corrections, user, sender_domain)
    IN  IF sender_domain # <<>> /\ corrected # <<>> THEN {corrected}
        ELSE RulesOrHeuristic(rules, user, mail)

RECURSIVE AddAll(_, _, _)
AddAll(tags, e, names) ==
    IF names = {} THEN tags
    ELSE LET name == CHOOSE n \in names : TRUE
         IN  AddAll(add_email_platform(tags, e, name), e, names \ {name})

RECURSIVE InOrder(_)
\* The rows mailbox by mailbox, in the order of their ids.
InOrder(rows) ==
    IF rows = {} THEN <<>>
    ELSE LET first == CHOOSE r \in rows : \A o \in rows :
                          r.email_id < o.email_id \/ (r.email_id = o.email_id /\ r.id <= o.id)
         IN  <<first>> \o InOrder(rows \ {first})

\* POST /api/platforms/scan_emails up to the loops.
scan_emails_for_platforms(user) ==
    /\ task.kind = "scan" /\ task.pc = "ready"
    /\ LET mine == {row.id : row \in {x \in emails : x.user_id = user}}
       IN  task' = IF mine = {}
                   THEN [task EXCEPT !.pc = "done", !.user = user]
                   ELSE [task EXCEPT !.pc = "loop", !.user = user,
                             !.todo = InOrder({m \in mail_records : m.email_id \in mine})]
    /\ UNCHANGED <<mailVars, subVars, otherVars, emails, email_platforms, waiter>>

\* One message of the inner loop.
ScanMail ==
    /\ task.kind = "scan" /\ task.pc = "loop" /\ task.todo # <<>>
    /\ LET mail  == Head(task.todo)
           after == AddAll(email_platforms, mail.email_id,
                           Classify(task.corrections, task.rules, task.user, mail))
       IN  /\ email_platforms' = after
           /\ task' = [task EXCEPT !.todo = Tail(@), !.seen = Append(@, mail),
                           !.scanned = @ + 1,
                           !.tagged = @ + Cardinality(after) - Cardinality(email_platforms)]
    /\ UNCHANGED <<mailVars, subVars, otherVars, emails, waiter>>

\* The answer with the two counts.
ScanReturn ==
    /\ task.kind = "scan" /\ task.pc = "loop" /\ task.todo = <<>>
    /\ task' = [task EXCEPT !.pc = "done"]
    /\ UNCHANGED <<mailVars, subVars, otherVars, emails, email_platforms, waiter>>

ScanSenders == {<<"n", " <", "bot", "@", "Ex", ">">>, <<"bot", "@", "oth">>, <<"bot">>}
ScanSubjects == {<<"code">>, <<"x">>}
ScanMails ==
    {[email_id |-> e, sender |-> sender, subject |-> subject] :
        e \in EmailIds, sender \in ScanSenders, subject \in ScanSubjects}

RECURSIVE StoreAll(_, _)
StoreAll(rows, mails) ==
    IF mails = {} THEN rows
    ELSE LET m == CHOOSE x \in mails : TRUE
         IN  StoreAll(add_mail_record(rows, m.email_id, m, [fmt |-> "sql", sec |-> 1],
                                      "inbox").rows, mails \ {m})

Corrections(user) == {[user_id |-> user, sender_domain |-> <<"ex">>,
                       corrected_name |-> <<"Acme">>]}
Rules(enabled) == {[user_id |-> 1, platform_name |-> <<"Rule">>,
                    subject_pattern |-> <<"code">>, is_enabled |-> enabled]}

InitScan ==
    /\ graph_webhook_handler = FALSE
    /\ processing_emails = {}
    /\ processor_emails = {}
    /\ last_check_time = [e \in EmailIds |-> 0]
    /\ last_error = [e \in EmailIds |-> ""]
    /\ now = 1
    /\ provider_mail = [e \in EmailIds |-> {}]
    /\ calls = [token |-> 0, list |-> 0]
    /\ ws_events = {}
    /\ reqs = [r \in Ops |-> FreeReq]
    /\ IdleSubs
    /\ emails = OutlookRows
    /\ waiter = IdleWaiter
    /\ \E mails \in {M \in SUBSET ScanMails : Cardinality(M) <= MaxScan} :
          mail_records = StoreAll({}, mails)
    /\ email_platforms \in {{}, {[email_id |-> 1, platform_name |-> <<"acme">>]}}
    /\ \E corrections \in {{}, Corrections(1), Corrections(2)},
          rules \in {{}, Rules(TRUE), Rules(FALSE)} :
          task = [kind |-> "scan", pc |-> "ready", user |-> NoUser,
                  corrections |-> corrections, rules |-> rules,
                  todo |-> <<>>, seen |-> <<>>, scanned |-> 0, tagged |-> 0]

NextScan ==
    \/ \E user \in WaitUsers : scan_emails_for_platforms(user)
    \/ ScanMail
    \/ ScanReturn

SpecScan == InitScan /\ [][NextScan]_vars

\* The user has a correction for the sender domain of the message.
HasCorrection(mail) ==
    \E c \in task.corrections : /\ c.user_id = task.user
                                /\ c.sender_domain = _extract_sender_domain(mail.sender)

CorrectedName(mail) ==
    (CHOOSE c \in task.corrections : /\ c.user_id = task.user
                                     /\ c.sender_domain = _extract_sender_domain(mail.sender)
    ).corrected_name

C25_Step ==
    (task.kind = "scan" /\ task.pc = "loop" /\ task.todo # <<>> /\ task'.scanned # task.scanned
        /\ HasCorrection(Head(task.todo))) =>
       email_platforms' \subseteq
           email_platforms \cup {[email_id |-> Head(task.todo).email_id,
                                  platform_name |-> CorrectedName(Head(task.todo))]}

\* C25: when the scan classifies a message whose sender domain has a
\* correction of the user, the corrected name is the only tag it can add to
\* the mailbox; rules and heuristics add nothing for that message.
C25_CorrectionOnly == [][C25_Step]_vars

\* A message with a correction and a matching enabled rule was scanned: the
\* mailbox has the corrected name and not the name of the rule.
C25_Witness ==
    /\ task.kind = "scan" /\ task.pc = "done" /\ Len(task.seen) = 1
    /\ HasCorrection(task.seen[1])
    /\ match_platform_rules(task.rules, task.user, task.seen[1].sender,
                            task.seen[1].subject) # {}
    /\ email_platforms = {[email_id |-> task.seen[1].email_id, platform_name |-> <<"Acme">>]}

\* ---------------------------------------------------- import and export
\* A text is a sequence of lines, a line a string whose token "----" is the
\* field separator and whose token " " is a blank.
MaxLines == 2

SEP == "----"

RECURSIVE Split(_)
\* line.split('----'): the fields, one more than there are separators.
Split(line) ==
    LET seps == {i \in 1..Len(line) : line[i] = SEP}
    IN  IF seps = {} THEN <<line>>
        ELSE LET i == CHOOSE k \in seps : \A j \in seps : k <= j
             IN  <<SubSeq(line, 1, i - 1)>> \o Split(SubSeq(line, i + 1, Len(line)))

RECURSIVE Join(_)
\* '----'.join(fields)
Join(fields) ==
    IF Len(fields) = 1 THEN fields[1] ELSE fields[1] \o <<SEP>> \o Join(Tail(fields))

IsBlank(line) == Strip(line) = <<>>

RECURSIVE StripLines(_)
\* data.strip().split('\n'): blank lines at either end go, and so do the
\* blanks before the first and after the last line that is left; one empty
\* line is left of a text of blanks.
StripLines(lines) ==
    IF lines = <<>> THEN <<<<>>>>
    ELSE IF IsBlank(Head(lines)) THEN StripLines(Tail(lines))
    ELSE IF IsBlank(lines[Len(lines)]) THEN StripLines(SubSeq(lines, 1, Len(lines) - 1))
    ELSE [i \in 1..Len(lines) |-> IF i = 1 \/ i = Len(lines) THEN Strip(lines[i]) ELSE lines[i]]

\* db.add_email: the address is unique in the table.
add_email(rows, user, email, password, client_id, refresh_token, mail_type) ==
    IF \E row \in rows : row.email = email
    THEN [rows |-> rows, success |-> FALSE]
    ELSE [rows |-> rows \cup {EmailRow(Cardinality(rows) + 1, user, email, password,
                                       client_id, refresh_token, mail_type)},
          success |-> TRUE]

Failure(i, line, reason) == [line |-> i, content |-> line, reason |-> reason]

RECURSIVE ImportFrom(_, _, _, _, _)
\* The loop of import_emails from line i on; out holds the table and the
\* counts so far.
ImportFrom(lines, i, user, mail_type, out) ==
    IF i > Len(lines) THEN out
    ELSE LET line  == Strip(lines[i])
             parts == Split(line)
             fail(reason) == [out EXCEPT !.failed_details = Append(@, Failure(i, line, reason))]
         IN  ImportFrom(lines, i + 1, user, mail_type,
                 IF line = <<>> THEN out
                 ELSE IF Len(parts) # 4 THEN fail("format")
                 ELSE IF \E k \in 1..4 : parts[k] = <<>> THEN fail("blank field")
                 ELSE LET added == add_email(out.rows, user, parts[1], parts[2], parts[3],
                                             parts[4], mail_type)
                      IN  IF added.success
                          THEN [out EXCEPT !.rows = added.rows, !.success = @ + 1]
                          ELSE fail("exists"))

\* POST /api/emails/import
import_emails(user, data, mail_type) ==
    /\ task.kind = "port" /\ task.pc \in {"ready", "emptied"}
    /\ LET lines == StripLines(data)
           out   == ImportFrom(lines, 1, user, mail_type,
                               [rows |-> emails, success |-> 0, failed_details |-> <<>>])
       IN  /\ emails' = out.rows
           /\ task' = [task EXCEPT !.pc = "imported", !.data = data, !.before = emails,
                           !.total = Len(lines), !.success = out.success,
                           !.failed_details = out.failed_details]
    /\ UNCHANGED <<mailVars, subVars, otherVars, email_platforms, waiter>>

\* One line of the export.
ExportLine(row) ==
    IF row.mail_type = "outlook"
    THEN Join(<<row.email, row.password, row.client_id, row.refresh_token>>)
    ELSE Join(<<row.email, row.password, <<row.mail_type>>>>)

RECURSIVE ExportLines(_)
ExportLines(rows) ==
    IF rows = {} THEN <<>>
    ELSE LET first == CHOOSE r \in rows : \A o \in rows : r.id <= o.id
         IN  <<ExportLine(first)>> \o ExportLines(rows \ {first})

\* GET /api/emails/export
export_emails(user, is_admin) ==
    /\ task.kind = "port" /\ task.pc = "ready"
    /\ task' = [task EXCEPT !.pc = "exported", !.exported = emails,
                    !.data = ExportLines(VisibleEmails(emails, user, is_admin))]
    /\ UNCHANGED <<mailVars, subVars, otherVars, emails, email_platforms, waiter>>

\* POST /api/emails/batch_delete with every mailbox of the user.
batch_delete_emails(user) ==
    /\ task.kind = "port" /\ task.pc = "exported"
    /\ emails' = {row \in emails : row.user_id # user}
    /\ task' = [task EXCEPT !.pc = "emptied"]
    /\ UNCHANGED <<mailVars, subVars, otherVars, email_platforms, waiter>>

ImapRow == EmailRow(3, 1, <<"b">>, <<"p">>, <<>>, <<>>, "imap")
Tables == {{}, {EmailRow(1, 1, <<"a", "1">>, <<"p">>, <<"c">>, <<"r">>, "outlook")},
           {ImapRow}, OutlookRows, OutlookRows \cup {ImapRow}}
MailTypes == {"outlook", "imap"}
\* request.json.get('mail_type', 'outlook') of a request that names no kind
DefaultMailType == "outlook"

ImportLinesSet ==
    { <<"a", "1", SEP, "p", SEP, "c", SEP, "r">>,
      <<"b", SEP, "p", SEP, "imap">>,
      <<>>, <<" ">>,
      <<"b", SEP, "p">>,
      <<"b", SEP, SEP, "c", SEP, "r">>,
      <<" ", "b", SEP, "p", SEP, "c", SEP, "r", " ">> }
ImportTexts == SeqsUpTo(ImportLinesSet, MaxLines) \ {<<>>}

InitPort ==
    /\ graph_webhook_handler = FALSE
    /\ processing_emails = {}
    /\ processor_emails = {}
    /\ mail_records = {}
    /\ last_check_time = [e \in EmailIds |-> 0]
    /\ last_error = [e \in EmailIds |-> ""]
    /\ now = 1
    /\ provider_mail = [e \in EmailIds |-> {}]
    /\ calls = [token |-> 0, list |-> 0]
    /\ ws_events = {}
    /\ reqs = [r \in Ops |-> FreeReq]
    /\ IdleSubs
    /\ emails \in Tables
    /\ email_platforms = {}
    /\ waiter = IdleWaiter
    /\ task = [kind |-> "port", pc |-> "ready", data |-> <<>>, before |-> {}, exported |-> {},
               total |-> 0, success |-> 0, failed_details |-> <<>>]

NextPort ==
    \/ \E data \in ImportTexts, mail_type \in MailTypes :
          task.pc = "ready" /\ import_emails(1, data, mail_type)
    \/ export_emails(1, FALSE)
    \/ batch_delete_emails(1)
    \/ task.pc = "emptied" /\ import_emails(1, task.data, DefaultMailType)

SpecPort == InitPort /\ [][NextPort]_vars

\* The lines of the text that are not blank, by their 1-based index.
NonBlank(data) == {i \in 1..Len(data) : ~IsBlank(data[i])}

\* A line import has to take: four fields, or three with a kind other than
\* Outlook as the last, none of them empty.
WellFormed(line) ==
    LET parts == Split(Strip(line))
    IN  /\ Len(parts) = 4 \/ (Len(parts) = 3 /\ parts[3] # <<"outlook">>)
        /\ \A k \in 1..Len(parts) : parts[k] # <<>>

Reported(i) == \E k \in 1..Len(task.failed_details) : task.failed_details[k].line = i

\* C26: after an import every well-formed line, of four fields or of three
\* with a kind, has its mailbox in the table, every other line that is not
\* blank is in failed_details under its 1-based index, blank lines are in
\* neither, and success + failed is the number of lines that are not blank.
C26_ImportPerLine ==
    (task.kind = "port" /\ task.pc = "imported" /\ task.exported = {}) =>
        /\ \A i \in NonBlank(task.data) :
              IF WellFormed(task.data[i])
              THEN \E row \in emails : row.email = Split(Strip(task.data[i]))[1]
              ELSE Reported(i)
        /\ \A i \in 1..Len(task.data) : IsBlank(task.data[i]) => ~Reported(i)
        /\ task.success + Len(task.failed_details) = Cardinality(NonBlank(task.data))

SameMailbox(a, b) ==
    /\ a.email = b.email /\ a.mail_type = b.mail_type /\ a.password = b.password
    /\ a.client_id = b.client_id /\ a.refresh_token = b.refresh_token

\* C27: the text of an export, imported into the emptied account, gives back
\* every exported mailbox with its address, kind and credentials, and no line
\* of it is rejected.
C27_ExportImportRoundTrip ==
    (task.kind = "port" /\ task.pc = "imported" /\ task.exported # {}) =>
        /\ \A old \in task.exported : \E row \in emails : SameMailbox(old, row)
        /\ task.failed_details = <<>>

\* ------------------------------------------------------------ the vault
\* A credential is a string of tokens. A Fernet token made with key k is the
\* token "gAAAAA", which stands for the six characters every Fernet token
\* starts with, then k, which stands for the part only the holder of k can
\* make, then the plaintext.
MaxText == 3

MARK == "gAAAAA"
\* Keys Fernet() takes; "bad" is an ENCRYPTION_KEY that is no 32-byte
\* url-safe base64 string, on which Fernet() raises ValueError.
FernetKeys == {"k1", "k2"}
EnvKeys == {"k1", "bad"}

\* get_fernet() returns: Fernet(key) raises on a malformed key.
FernetOk(key) == key \in FernetKeys

\* Fernet(key).decrypt accepts the string.
IsToken(key, c) == Len(c) >= 2 /\ c[1] = MARK /\ c[2] = key

\* encrypt: the empty string as it is, the plaintext itself when anything in
\* the try block raises.
encrypt(key, plaintext) ==
    IF plaintext = <<>> THEN plaintext
    ELSE IF ~FernetOk(key) THEN plaintext
    ELSE <<MARK, key>> \o plaintext

\* Whatever starts like a Fernet token is taken for one.
decrypt_by_prefix(key, ciphertext) ==
    IF ciphertext # <<>> /\ ciphertext[1] = MARK
    THEN SubSeq(ciphertext, 3, Len(ciphertext)) ELSE ciphertext

\* decrypt: the empty string as it is, the input itself when anything in the
\* try block raises.
decrypt(key, ciphertext) ==
    IF ciphertext = <<>> THEN ciphertext
    ELSE IF ~FernetOk(key) THEN ciphertext
    ELSE IF ~IsToken(key, ciphertext) THEN ciphertext
    ELSE SubSeq(ciphertext, 3, Len(ciphertext))

\* is_encrypted: text.startswith('gAAAAA')
is_encrypted(text) == text # <<>> /\ text[1] = MARK

VaultTexts == SeqsUpTo({MARK, "k1", "k2", "p"}, MaxText)

VaultInit(t) ==
    /\ graph_webhook_handler = FALSE
    /\ processing_emails = {}
    /\ processor_emails = {}
    /\ mail_records = {}
    /\ last_check_time = [e \in EmailIds |-> 0]
    /\ last_error = [e \in EmailIds |-> ""]
    /\ now = 1
    /\ provider_mail = [e \in EmailIds |-> {}]
    /\ calls = [token |-> 0, list |-> 0]
    /\ ws_events = {}
    /\ reqs = [r \in Ops |-> FreeReq]
    /\ IdleSubs
    /\ email_platforms = {}
    /\ waiter = IdleWaiter
    /\ task = t

\* A string is encrypted and decrypted, and decrypted as it is.
InitVault ==
    /\ emails = OutlookRows
    /\ \E key \in EnvKeys, text \in VaultTexts :
          VaultInit([kind |-> "vault", pc |-> "ready", key |-> key, text |-> text,
                     encrypted |-> <<>>, decrypted |-> <<>>, direct |-> <<>>])

UseVault ==
    /\ task.kind = "vault" /\ task.pc = "ready"
    /\ task' = [task EXCEPT !.pc = "done",
                    !.encrypted = encrypt(task.key, task.text),
                    !.decrypted = decrypt(task.key, encrypt(task.key, task.text)),
                    !.direct = decrypt(task.key, task.text)]
    /\ UNCHANGED <<mailVars, subVars, otherVars, emails, email_platforms, waiter>>

SpecVault == InitVault /\ [][UseVault]_vars

\* C28: decrypt gives back unchanged every string that is no ciphertext of
\* the current key, and decrypt(encrypt(x)) is x for every x that is not
\* empty.
C28_DecryptTolerant ==
    (task.kind = "vault" /\ task.pc = "done") =>
        /\ ~IsToken(task.key, task.text) => task.direct = task.text
        /\ task.text # <<>> => task.decrypted = task.text

\* A plaintext that starts like a token was decrypted as it is, and came back
\* from a real encryption too.
C28_Witness ==
    /\ task.kind = "vault" /\ task.pc = "done" /\ FernetOk(task.key)
    /\ is_encrypted(task.text) /\ ~IsToken(task.key, task.text)
    /\ task.encrypted # task.text
    /\ task.direct = task.text /\ task.decrypted = task.text

\* ------------------------------------------------------ the migration
\* Rows of the table the pass goes through.
MaxRows == 1

Credentials == {<<>>, <<"p">>, <<MARK, "k1", "p">>, <<MARK, "p">>}
LegacyRow(e, creds) == EmailRow(e, 1, <<"a">>, creds[1], creds[2], creds[3], "outlook")
LegacyTables ==
    UNION {{{LegacyRow(e, f[e]) : e \in 1..n} :
               f \in [1..n -> Credentials \X Credentials \X Credentials]} : n \in 0..MaxRows}

\* The value the UPDATE writes for one column.
MigrateField(key, value) ==
    IF value # <<>> /\ ~is_encrypted(value) THEN encrypt(key, value) ELSE value

MigrateRowOf(key, row) ==
    [row EXCEPT !.password = MigrateField(key, @), !.client_id = MigrateField(key, @),
                !.refresh_token = MigrateField(key, @)]

InitMigrate ==
    /\ emails \in LegacyTables
    /\ \E key \in EnvKeys :
          VaultInit([kind |-> "migrate", pc |-> "ready", key |-> key, rows |-> {},
                     todo |-> {}, result |-> FALSE])

\* conn.execute("SELECT ... FROM emails")
migrate_encrypt_data ==
    /\ task.kind = "migrate" /\ task.pc = "ready"
    /\ task' = [task EXCEPT !.pc = "loop", !.rows = emails, !.todo = {row.id : row \in emails}]
    /\ UNCHANGED <<mailVars, subVars, otherVars, emails, email_platforms, waiter>>

\* One row of the loop: the UPDATE inside the transaction.
MigrateRow(id) ==
    /\ task.kind = "migrate" /\ task.pc = "loop" /\ id \in task.todo
    /\ task' = [task EXCEPT !.todo = @ \ {id},
                    !.rows = {IF row.id = id THEN MigrateRowOf(task.key, row) ELSE row :
                                  row \in @}]
    /\ UNCHANGED <<mailVars, subVars, otherVars, emails, email_platforms, waiter>>

\* conn.commit() and return True
MigrateCommit ==
    /\ task.kind = "migrate" /\ task.pc = "loop" /\ task.todo = {}
    /\ emails' = task.rows
    /\ task' = [task EXCEPT !.pc = "done", !.result = TRUE]
    /\ UNCHANGED <<mailVars, subVars, otherVars, email_platforms, waiter>>

\* A statement raises: conn.rollback() and return False
MigrateRollback ==
    /\ task.kind = "migrate" /\ task.pc = "loop"
    /\ task' = [task EXCEPT !.pc = "done", !.result = FALSE]
    /\ UNCHANGED <<mailVars, subVars, otherVars, emails, email_platforms, waiter>>

NextMigrate ==
    \/ migrate_encrypt_data
    \/ \E id \in 1..MaxRows : MigrateRow(id)
    \/ MigrateCommit
    \/ MigrateRollback

SpecMigrate == InitMigrate /\ [][NextMigrate]_vars

\* C29: once the pass has returned True, password, client_id and
\* refresh_token of every row are empty or pass is_encrypted.
C29_AllEncryptedAfterMigration ==
    (task.kind = "migrate" /\ task.pc = "done" /\ task.result) =>
        \A row \in emails :
            /\ row.password = <<>> \/ is_encrypted(row.password)
            /\ row.client_id = <<>> \/ is_encrypted(row.client_id)
            /\ row.refresh_token = <<>> \/ is_encrypted(row.refresh_token)

\* ------------------------------------------------ GRAPH_WEBHOOK_URL
\* os.environ.get('GRAPH_WEBHOOK_URL'): <<>> when unset or empty.
WebhookUrls == {<<>>, <<"u">>}

\* The manager and the handler are built whatever the environment holds.
ManagerAlways(webhook_url) == TRUE

\* init_graph_webhook builds the manager and the handler: only with a URL.
ManagerBuilt(webhook_url) == webhook_url # <<>>

\* The process after init_graph_webhook: with a URL the renewal loop runs and
\* the background pass over all Outlook mailboxes has been started.
InitConfig ==
    /\ processing_emails = {}
    /\ processor_emails = {}
    /\ mail_records = {}
    /\ last_check_time = [e \in EmailIds |-> 0]
    /\ last_error = [e \in EmailIds |-> ""]
    /\ now = 1
    /\ provider_mail = [e \in EmailIds |-> {}]
    /\ calls = [token |-> 0, list |-> 0]
    /\ ws_events = {}
    /\ reqs = [r \in Ops |-> FreeReq]
    /\ subscriptions = {}
    /\ provider_subs = 0
    /\ creators = [k \in Creators |-> IdleCreator]
    /\ emails = OutlookRows /\ email_platforms = {} /\ waiter = IdleWaiter
    /\ \E webhook_url \in WebhookUrls :
          /\ task = [kind |-> "app", webhook_url |-> webhook_url]
          /\ graph_webhook_handler = ManagerBuilt(webhook_url)
          /\ renew = IF ManagerBuilt(webhook_url)
                     THEN [IdleRenew EXCEPT !.running = TRUE, !.pc = "test",
                                            !.check_interval = MaxInterval]
                     ELSE IdleRenew
          /\ bulk = IF ManagerBuilt(webhook_url)
                    THEN [IdleBulk EXCEPT !.pc = "run", !.total = Cardinality(EmailIds)]
                    ELSE IdleBulk

\* POST /api/graph/subscriptions/create_all: 400 without a manager, else the
\* background pass is started.
create_all_graph_subscriptions(r) ==
    /\ IsNext(r)
    /\ graph_webhook_handler => bulk.pc # "run"
    /\ reqs' = [reqs EXCEPT ![r] =
            [FreeReq EXCEPT !.kind = "create_all", !.method = "POST", !.pc = "done",
                 !.resp = IF graph_webhook_handler THEN Json(200, "started")
                          ELSE Json(400, "not_configured")]]
    /\ bulk' = IF graph_webhook_handler
               THEN [IdleBulk EXCEPT !.pc = "run", !.total = Cardinality(EmailIds)]
               ELSE bulk
    /\ UNCHANGED <<graph_webhook_handler, processing_emails, processor_emails, mail_records,
                   last_check_time, now, provider_mail, calls, ws_events, subscriptions,
                   provider_subs, creators, otherVars, acctVars>>

\* add_email and the manual endpoint call create_subscription only when
\* there is a manager.
StartCreate(k, e) == graph_webhook_handler /\ create_subscription(k, e)

\* The shutdown path stops the loop only when there is a manager.
Shutdown == graph_webhook_handler /\ stop_renew_loop

ConfigBody == Object(<<Created(<<"email_", "1">>)>>)

NextConfig ==
    \/ graph_webhook_endpoint(1, <<>>, ConfigBody)
    \/ HandlerStep(1)
    \/ create_all_graph_subscriptions(2)
    \/ \E ok \in BOOLEAN, resp \in CreateResponses :
          create_subscriptions_for_all_outlook_emails(ok, resp)
    \/ BulkReturn
    \/ \E e \in EmailIds : delete_graph_subscription(2, e)
    \/ \E ok \in BOOLEAN : DeleteToken(2, ok)
    \/ \E status \in DeleteStatuses : DeleteCall(2, status)
    \/ \E e \in EmailIds : StartCreate(1, e)
    \/ CreateCheck(1)
    \/ \E ok \in BOOLEAN : CreateToken(1, ok)
    \/ \E resp \in CreateResponses : CreatePost(1, resp)
    \/ RenewLoopTest
    \/ ScanEnd
    \/ Shutdown
    \/ Deliver(1, "inbox", "code")

SpecConfig == InitConfig /\ [][NextConfig]_vars

\* C30: without GRAPH_WEBHOOK_URL no subscription is created, renewed or
\* deleted, no renewal loop and no create pass runs, no token or list request
\* goes to the provider, nothing is stored, and every notification POST is
\* answered 202 with no thread started.
C30_DisabledWithoutUrl ==
    (task.kind = "app" /\ task.webhook_url = <<>>) =>
        /\ subscriptions = {} /\ provider_subs = 0
        /\ \A k \in Creators : creators[k] = IdleCreator
        /\ bulk = IdleBulk
        /\ renew = IdleRenew
        /\ calls = [token |-> 0, list |-> 0]
        /\ mail_records = {} /\ processing_emails = {} /\ ws_events = {}
        /\ \A e \in EmailIds : last_check_time[e] = 0
        /\ \A r \in Ops :
              /\ reqs[r].kind = "webhook" => reqs[r].pc = "done" /\ reqs[r].resp = Accepted
              /\ reqs[r].kind \in {"delete", "create_all"} =>
                    reqs[r].pc = "done" /\ reqs[r].resp.status = 400

\* Without a URL: a notification for mailbox 1, which has a new message at
\* the provider, was acknowledged, and create_all was refused.
C30_Witness ==
    /\ task.kind = "app" /\ task.webhook_url = <<>>
    /\ provider_mail[1] # {}
    /\ reqs[1].kind = "webhook" /\ reqs[1].body = ConfigBody /\ reqs[1].resp = Accepted
    /\ reqs[2].kind = "create_all" /\ reqs[2].resp.status = 400

\* ------------------------------------------ push fetches that meet faults
\* The except branches of _fetch_new_mail and _broadcast_new_mails:
\*   "save"    add_mail_record raises for one message (lines 509-510): the
\*             message is passed over and the loop goes on;
\*   "time"    update_check_time raises (line 513): the outer except (521-524)
\*             ends the fetch before the broadcast;
\*   "publish" broadcast_to_user raises (line 540): the except of
\*             _broadcast_new_mails (543-544) logs it, no event goes out.
\* Each of them returns into the finally of _process_single_notification.
FaultPoints == {"save", "time", "publish"}

FetchFault(r, at) ==
    /\ reqs[r].kind = "webhook"
    /\ \/ /\ at = "save"
          /\ reqs[r].pc = "save" /\ reqs[r].msgs # <<>>
          /\ reqs' = [reqs EXCEPT ![r].msgs = Tail(@),
                                  ![r].pc = IF Tail(reqs[r].msgs) = <<>> THEN "time" ELSE "save"]
          /\ last_check_time' = last_check_time
       \/ /\ at = "time"
          /\ reqs[r].pc = "time"
          /\ reqs' = [reqs EXCEPT ![r].pc = "finally", ![r].new_mails = <<>>]
          /\ last_check_time' = last_check_time
       \/ /\ at = "publish"
          /\ reqs[r].pc = "time" /\ reqs[r].new_mails # <<>>
          /\ reqs' = [reqs EXCEPT ![r].pc = "finally", ![r].new_mails = <<>>]
          /\ last_check_time' = update_check_time(last_check_time, reqs[r].cur, now)
    /\ UNCHANGED <<graph_webhook_handler, processing_emails, processor_emails, mail_records,
                   now, provider_mail, calls, ws_events, subVars, otherVars, acctVars>>

\* Mailbox 1 as earlier deliveries left it: two inbox messages of one second,
\* listed newest id first, and the rows an earlier fetch may have stored.
OldMail == {GraphMessage(1, 0, "inbox", "code"), GraphMessage(2, 0, "inbox", "x")}

OldRow(m) == MailRow(1, 1, ParseMessage(m), PushReceivedTime(FromIsoFormat(m.receivedDateTime)), "INBOX")

InitPublish ==
    /\ graph_webhook_handler = TRUE
    /\ processing_emails = {}
    /\ processor_emails = {}
    /\ provider_mail \in {[e \in EmailIds |-> {}], [e \in EmailIds |-> IF e = 1 THEN OldMail ELSE {}]}
    /\ mail_records \in {{}} \cup {{OldRow(m)} : m \in provider_mail[1]}
    /\ last_check_time = [e \in EmailIds |-> 0]
    /\ last_error = [e \in EmailIds |-> ""]
    /\ now = 1
    /\ calls = [token |-> 0, list |-> 0]
    /\ ws_events = {}
    /\ reqs = [r \in Ops |-> FreeReq]
    /\ IdleSubs /\ IdleAccounts

\* Notifications for the two mailboxes arrive while others are handled; the
\* provider refuses tokens and listings, the store and the live fan-out fail.
NextPush ==
    \/ \E r \in Ops, b \in SpecBodies : graph_webhook_endpoint(r, <<>>, b)
    \/ \E r \in Ops : HandlerStep(r)
    \/ \E r \in Ops, at \in FaultPoints : FetchFault(r, at)
    \/ \E r \in Ops : Close(r)
    \/ Deliver(1, "inbox", "code")

SpecPublish == InitPublish /\ [][NextPush]_vars

\* The in-flight set holds exactly the mailboxes some handler thread is
\* fetching or about to release.
InFlightExact ==
    \A e \in EmailIds : e \in processing_emails <=> \E r \in Ops : PushInFlight(r, e)

\* Thread r is at a 'created' notification for mailbox e.
AtNotificationFor(r, e) ==
    /\ reqs[r].kind = "webhook" /\ reqs[r].pc = "loop" /\ reqs[r].body.value # <<>>
    /\ NotificationTarget(CurrentNotification(r)) = e

C31_Step ==
    \A r \in Ops : \A e \in EmailIds :
        (/\ AtNotificationFor(r, e)
         /\ ~\E q \in Ops : PushInFlight(q, e)
         /\ reqs'[r] # reqs[r]) =>
            /\ reqs'[r].cur = e
            /\ e \in processing_emails'

\* C31: the mailbox id put in the in-flight set before a push fetch leaves it
\* when the fetch ends, whether it completes, returns early (no credentials,
\* token refused, nothing listed) or raises, also when the publish fails: the
\* set never holds a mailbox no thread is fetching, and a notification handled
\* while no fetch of its mailbox is running starts a fetch.
C31_InFlightReleased == []InFlightExact /\ [][C31_Step]_vars

\* A fetch of mailbox 1 stored a message and its publish failed; the thread has
\* ended, and a later notification for mailbox 1 is being fetched.
C31_Witness ==
    \E r1, r2 \in Ops :
        /\ reqs[r1].kind = "webhook" /\ reqs[r1].pc = "done"
        /\ PushInFlight(r2, 1) /\ reqs[r2].pc = "list"
        /\ mail_records \ {OldRow(m) : m \in OldMail} # {}
        /\ ws_events = {} /\ last_check_time[1] # 0
        /\ processing_emails = {1}

\* ------------------------------------------------ what a push fetch publishes
\* The row of the store that holds message msg of mailbox e under id.
RowFor(rows, id, e, msg) ==
    \E row \in rows : /\ row.id = id /\ row.email_id = e
                      /\ row.subject = msg.subject /\ row.sender = msg.sender

C32_Step ==
    \A r \in Ops :
        (reqs[r].kind = "webhook" /\ reqs'[r] # reqs[r]) =>
            /\ reqs[r].pc = "list" => reqs'[r].new_mails = <<>>
            /\ reqs[r].pc = "save" =>
                 IF mail_records' # mail_records
                 THEN \E row \in mail_records' \ mail_records :
                         /\ reqs'[r].new_mails = Append(reqs[r].new_mails, row.id)
                         /\ RowFor(mail_records', row.id, reqs[r].cur, Head(reqs[r].msgs))
                 ELSE reqs'[r].new_mails = reqs[r].new_mails
            /\ reqs[r].pc = "time" =>
                 /\ ws_events' \ ws_events \subseteq
                        {[user_id |-> UserOf(reqs[r].cur), data |-> reqs[r].new_mails,
                          count |-> Len(reqs[r].new_mails)]}
                 /\ reqs[r].new_mails = <<>> => ws_events' = ws_events
            /\ reqs[r].pc \notin {"time"} => ws_events' = ws_events

\* What the save loop has collected when it ends: the ids of rows of the
\* mailbox, each once, in the order the rows were inserted.
CollectedInOrder ==
    \A r \in Ops :
        (reqs[r].kind = "webhook" /\ reqs[r].pc \in {"save", "time"}) =>
            LET ids == reqs[r].new_mails
            IN  /\ \A i \in 1..Len(ids) : \E row \in mail_records :
                        row.id = ids[i] /\ row.email_id = reqs[r].cur
                /\ \A i, j \in 1..Len(ids) : i < j => ids[i] < ids[j]
                /\ Len(ids) + Len(reqs[r].msgs) <= reqs[r].total

\* C32: the new_mails event of a push fetch goes to the owner of the mailbox
\* and lists exactly the messages whose insert reported inserted, in listing
\* order, with count the length of the list; a fetch that inserted nothing
\* publishes nothing.
C32_PublishesInserted == []CollectedInOrder /\ [][C32_Step]_vars

\* Two messages were listed, the first was stored already, the second was
\* inserted, and the event names the second alone.
C32_Witness ==
    \E r \in Ops :
        /\ reqs[r].kind = "webhook" /\ reqs[r].pc = "finally" /\ reqs[r].total = 2
        /\ Cardinality(mail_records) = 2
        /\ ws_events = {[user_id |-> 1, data |-> <<2>>, count |-> 1]}
        /\ OldRow(GraphMessage(2, 0, "inbox", "x")) \in mail_records

\* ------------------------------------------------ batches of the bulk create
\* C33: during bulk create at most batch_size create requests are sent
\* without a pause of pause_between_batches between them, whichever mailboxes
\* of the list are skipped as already subscribed.
C33_PauseEveryBatch == bulk.since_pause <= BATCH_SIZE

\* ------------------------------------------- create for a subscribed mailbox
\* Creator k is about to test the table and its mailbox, which has
\* credentials, has a row there.
AtSubscribed(k) ==
    /\ creators[k].pc = "check"
    /\ HasOAuth(creators[k].email_id)
    /\ \E row \in subscriptions : row.email_id = creators[k].email_id

C34_Step ==
    \A k \in Creators :
        (AtSubscribed(k) /\ creators'[k] # creators[k]) =>
            /\ creators'[k].pc = "done"
            /\ creators'[k].result = "existing"
            /\ subscriptions' = subscriptions
            /\ provider_subs' = provider_subs

\* C34: create_subscription for a mailbox that has a subscription row already
\* does nothing: it asks no token and posts no create request, leaves the
\* subscription table as it is and returns the row it found.
C34_CreateIsNoOpWhenSubscribed == [][C34_Step]_vars

\* A call for mailbox 1 returned the existing row: the table holds the one row
\* an earlier call made and the provider issued one subscription.
C34_Witness ==
    \E k \in Creators :
        /\ creators[k].pc = "done" /\ creators[k].result = "existing"
        /\ creators[k].email_id = 1
        /\ Cardinality(subscriptions) = 1 /\ provider_subs = 1

\* ------------------------------------------------ progress of a pull check
\* The check of request r has returned success and its task has not ended.
Succeeded(r) ==
    reqs[r].kind = "check" /\ reqs[r].pc = "pfinally" /\ reqs[r].resp = Json(200, "success")

\* C35: the percents a successful pull check hands to its progress callback
\* lie in [0,100], start at 0, never decrease from one call to the next and
\* end at 100.
C35_ProgressMonotone ==
    \A r \in Ops :
        Succeeded(r) =>
            LET p == reqs[r].progress
            IN  /\ p # <<>> /\ p[1] = 0 /\ p[Len(p)] = 100
                /\ \A i \in 1..Len(p) : p[i] \in 0..100
                /\ \A i \in 1..(Len(p) - 1) : p[i] <= p[i + 1]

\* -------------------------------------------- starts and stops of the loop
\* start_renew_loop calls per run.
MaxStarts == 2

\* start_renew_loop, lines 37-39: running is read; the call goes on when it is
\* False and returns False when it is True.
StartRenewTest ==
    /\ ~renew.running
    /\ renew.started + renew.starting < MaxStarts
    /\ renew' = [renew EXCEPT !.starting = @ + 1]
    /\ UNCHANGED <<mailVars, subVars, last_error, acctVars>>

\* The loop thread of renew as a thread of its own.
ThreadOf(rn) == [pc |-> rn.pc, check_interval |-> rn.check_interval, waited |-> rn.waited]

Alive(pc) == pc \notin {"off", "exited"}

\* start_renew_loop, lines 41-47: running = True, a new Thread is made the
\* renew_thread and started. The thread renew_thread referred to runs on.
StartRenewThread(check_interval) ==
    /\ renew.starting > 0
    /\ renew.pc \in {"off", "exited", "test", "scan", "wait", "sleep"}
    /\ renew.todo = {}
    /\ renew' = [renew EXCEPT !.running = TRUE, !.starting = @ - 1, !.started = @ + 1,
                              !.pc = "test", !.check_interval = check_interval, !.waited = 0,
                              !.orphans = IF Alive(renew.pc) THEN Append(@, ThreadOf(renew))
                                          ELSE @]
    /\ UNCHANGED <<mailVars, subVars, last_error, acctVars>>

\* One step of _renew_loop (lines 58-70) for a thread whose scan finds no
\* subscription to renew.
LoopNext(th, running) ==
    IF th.pc = "test" THEN [th EXCEPT !.pc = IF running THEN "scan" ELSE "exited"]
    ELSE IF th.pc = "scan" THEN [th EXCEPT !.pc = "wait", !.waited = 0]
    ELSE IF th.pc = "wait"
         THEN [th EXCEPT !.pc = IF th.waited = th.check_interval THEN "test"
                                ELSE IF WaitBreaks(running) THEN "test"
                                ELSE "sleep"]
    ELSE [th EXCEPT !.pc = "wait", !.waited = @ + 1]

\* A loop thread that is not the renew_thread any more takes its next step.
OrphanStep(i) ==
    /\ i \in 1..Len(renew.orphans)
    /\ Alive(renew.orphans[i].pc)
    /\ get_expiring_subscriptions(subscriptions, RENEW_BEFORE_HOURS, now) = {}
    /\ renew' = [renew EXCEPT !.orphans[i] = LoopNext(@, renew.running)]
    /\ UNCHANGED <<mailVars, subVars, last_error, acctVars>>

\* No mailbox is subscribed: the scans of the loop have nothing to renew.
InitLoop ==
    /\ InitMail
    /\ IdleAccounts
    /\ IdleSubs

NextLoop ==
    \/ StartRenewTest
    \/ \E check_interval \in 1..MaxInterval : StartRenewThread(check_interval)
    \/ stop_renew_loop
    \/ RenewLoopTest
    \/ ScanEnd
    \/ WaitTest
    \/ SleepEnd
    \/ \E i \in 1..MaxStarts : OrphanStep(i)

SpecLoop == InitLoop /\ [][NextLoop]_vars

\* Loop threads that were started and have not left _renew_loop.
ActiveLoops ==
    (IF Alive(renew.pc) THEN 1 ELSE 0)
        + Cardinality({i \in 1..Len(renew.orphans) : Alive(renew.orphans[i].pc)})

\* C36: at most one renewal loop thread is active at any time, whatever the
\* sequence and interleaving of start_renew_loop and stop_renew_loop calls.
C36_OneLoopThread == ActiveLoops <= 1

\* ------------------------------------------------ a listing that fails
\* The steps of a check whose token request is granted and whose listings
\* the provider refuses, which leave nothing to save.
OutageStep(r) ==
    \/ CheckTaskBegin(r, TRUE)
    \/ CheckListInbox(r, FALSE)
    \/ CheckListJunk(r, FALSE)
    \/ CheckNoMail(r)
    \/ CheckTaskEnd(r)

\* Pull checks of mailbox 1 while the provider answers no listing with 200.
NextOutage ==
    \/ \E r \in Ops : check_email(r, 1)
    \/ \E r \in Ops : OutageStep(r)
    \/ \E f \in Folders : Deliver(1, f, "code")
    \/ Tick(1)

SpecOutage == InitSync /\ [][NextOutage]_vars

\* The listings of the check of request r are over.
Listed(r) == reqs[r].kind = "check" /\ reqs[r].pc = "psave"

C37_Step ==
    \A r \in Ops :
        (Listed(r) /\ reqs'[r] # reqs[r]) =>
            /\ reqs'[r].resp # Json(200, "success")
            /\ last_check_time' = last_check_time

\* C37: a pull check in which the listing of a folder failed does not return
\* success and does not advance last_check_time.
C37_FailedListingNotSuccess == [][C37_Step]_vars

\* ------------------------------------------- mail that arrives during a check
\* Mailbox 1 after an earlier check at instant 1: the store holds one message
\* of it, which the provider holds no more.
StoredBefore ==
    MailRow(1, 1, [subject |-> "old", sender |-> FormatSender([name |-> "n", address |-> "a"])],
            [fmt |-> "sql", sec |-> 0], "INBOX")

InitPull ==
    /\ graph_webhook_handler = FALSE
    /\ processing_emails = {}
    /\ processor_emails = {}
    /\ mail_records = {StoredBefore}
    /\ last_check_time = [e \in EmailIds |-> IF e = 1 THEN 1 ELSE 0]
    /\ last_error = [e \in EmailIds |-> ""]
    /\ now = 1
    /\ provider_mail = [e \in EmailIds |-> {}]
    /\ calls = [token |-> 0, list |-> 0]
    /\ ws_events = {}
    /\ reqs = [r \in Ops |-> FreeReq]
    /\ IdleSubs /\ IdleAccounts

\* The steps of a check the provider refuses nothing to.
PullStep(r) ==
    \/ CheckTaskBegin(r, TRUE)
    \/ CheckListInbox(r, TRUE)
    \/ CheckListJunk(r, TRUE)
    \/ CheckNoMail(r)
    \/ CheckSave(r)
    \/ CheckUpdateTime(r)
    \/ CheckTaskEnd(r)

\* Pull checks of mailbox 1 alone, new mail at the provider, and the clock.
NextPull ==
    \/ \E r \in Ops : check_email(r, 1)
    \/ \E r \in Ops : PullStep(r)
    \/ \E f \in Folders : Deliver(1, f, "code")
    \/ Tick(1)

SpecPull == InitPull /\ [][NextPull]_vars

\* C38: pull sync never skips a message for good: once a pull check has
\* succeeded, every message that had reached the provider before the
\* last_check_time the check started from (so before the check was asked for,
\* while an earlier check was running or before) is in the store.
C38_NothingSkipped ==
    \A r \in Ops :
        Succeeded(r) =>
            \A m \in provider_mail[reqs[r].cur] :
                m.receivedDateTime.sec < reqs[r].lct => RowsOf(reqs[r].cur, m) # {}

\* ------------------------------------- notifications during a push fetch
\* The steps of a handler thread the provider refuses nothing to.
NotifyStep(r) ==
    \/ handle_notification(r)
    \/ NotificationsDone(r)
    \/ _process_single_notification(r, TRUE)
    \/ FetchList(r, TRUE)
    \/ FetchSave(r)
    \/ FetchUpdateTime(r)
    \/ FetchFinally(r)

\* The first delivery may concern a message that is gone when it is fetched;
\* every later one announces a message the provider holds.
NextNotify ==
    \/ \E r \in Ops, b \in SpecBodies :
          /\ r = 1 \/ InboxOf(1) # {}
          /\ graph_webhook_endpoint(r, <<>>, b)
    \/ \E r \in Ops : NotifyStep(r)
    \/ Deliver(1, "inbox", "code")

\* Handler threads are scheduled as long as they have a step to take.
SpecNotify == InitSync /\ [][NextNotify]_vars /\ WF_vars(\E r \in Ops : NotifyStep(r))

\* A notification for mailbox 1 has been accepted, its thread has not run
\* yet, and the provider holds a message of the mailbox.
Announced ==
    \E r \in Ops :
        /\ reqs[r].kind = "webhook" /\ reqs[r].pc = "start"
        /\ \E i \in 1..Len(reqs[r].body.value) :
               NotificationTarget(reqs[r].body.value[i]) = 1
        /\ InboxOf(1) # {}

\* C39: every message a 'created' notification announces is stored in the end
\* without a further notification, also when the notification arrives while a
\* fetch of the mailbox is in flight.
C39_AnnouncedIsStored ==
    Announced ~> (\A m \in InboxOf(1) : RowsOf(1, m) # {})

\* ------------------------------------------- a mailbox the scan lost
\* The scan removed the row of mailbox 1 after a failed renewal and the
\* create_subscription call that followed has returned None.
Lost ==
    /\ renew.running
    /\ renew.pc = "recreate" /\ renew.cur.email_id = 1
    /\ creators[RenewCreator].pc = "done" /\ creators[RenewCreator].result = "none"
    /\ get_subscription_by_email_id(subscriptions, 1) = {}

\* create_subscription is called for mailbox 1.
Retried == creators[RenewCreator].pc = "check" /\ creators[RenewCreator].email_id = 1

\* C40: a mailbox whose row the renewal scan removed and whose recreate failed
\* gets a new create attempt from a later scan, as long as the loop runs.
C40_LostMailboxRetried == Lost ~> (Retried \/ ~renew.running)

====
